---- MODULE Spec2Model ----
(***************************************************************************)
(* AirView / CouchGang: the signaling server, the client's sync loop and   *)
(* the browser extension.                                                  *)
(*                                                                         *)
(* RoomManager (packages/server/src/room-manager.ts) is the in-memory      *)
(* store of rooms, rosters, playback state and ad state; the socket        *)
(* handlers (socket-handlers.ts) route wire events to it and fan the       *)
(* results out over socket.io. SyncManager (extension, sync-manager) is    *)
(* the client's reconciliation loop between a pushed remote state and the  *)
(* local video element.                                                    *)
(*                                                                         *)
(* Room ids come from uuidv4(): the model hands out ids never used before. *)
(* socket.io gives every connection a new id, so a closed socket id never  *)
(* comes back. The REMOTE_COMMAND, SIGNAL, CHAT_MESSAGE and REACTION       *)
(* handlers only relay and touch no RoomManager state; they are left out,  *)
(* as is SyncManager's destroy().                                          *)
(*                                                                         *)
(* The browser extension is the background script (background/index.ts),   *)
(* which owns the socket and answers the popup's CREATE_ROOM and JOIN_ROOM *)
(* requests, and the content script (contents/universal.ts), which applies *)
(* the server's messages to the page's video element and runs an AdMonitor *)
(* (extension, ad-monitor). Of the extension the model leaves out: the     *)
(* background script's currentRoom and participant count, which only feed  *)
(* the popup's display; the content script's isInRoom, its play, pause and *)
(* seeked listeners and emitPlaybackUpdate (SyncManager's counterparts are *)
(* in SpecSync); the LEAVE_ROOM request; and the loss of                   *)
(* the extension's connection. The background script keeps one socket.     *)
(*                                                                         *)
(* Spec         : the RoomManager API called directly, with any arguments, *)
(*                as the unit tests do.                                    *)
(* SpecScenario : the ad scenario of the handler tests, from their         *)
(*                beforeEach state.                                        *)
(* SpecServer   : the socket handlers driven by connected sockets.         *)
(* SpecSync     : one SyncManager with its video element, its player       *)
(*                events and its timers.                                   *)
(* SpecClient   : the extension and one other participant against the      *)
(*                socket handlers, with the messages in flight both ways.  *)
(* SpecTogether : the same, from the state in which the extension's room   *)
(*                exists and the other participant has joined it.          *)
(***************************************************************************)
EXTENDS Integers, Sequences, FiniteSets, TLC

\* Bounds of the model: how many socket ids and room ids exist, and how many
\* RoomManager calls (Spec) or wire events (SpecServer) a run is followed for.
MaxSockets == 3
MaxRooms == 2
MaxCalls == 4
MaxEvents == 6
\* How far the server's clock is followed
MaxClock == 1
\* How many SyncManager calls, player events and timer firings a run of
\* SpecSync is followed for
MaxSteps == 9
\* How many steps of the extension, the server and the other participant a
\* run of SpecClient and a run of SpecTogether are followed for, and how many
\* requests the popup makes
MaxClientSteps == 8
MaxTogetherSteps == 6
MaxRequests == 2

Sockets == 1..MaxSockets
RoomIds == 1..MaxRooms
\* Playback positions a client reports: the start, and a later position
Timestamps == {0, 120}

\* socketToRoom.get(id) === undefined
NoRoom == 0

VARIABLES
    rooms,          \* RoomManager.rooms: roomId -> RoomState (existing rooms only)
    socketToRoom,   \* RoomManager.socketToRoom: socketId -> roomId (NoRoom: no entry)
    nextRoom,       \* the next room id generateRoomId() hands out
    now,            \* the server's clock: the last value Date.now() returned
    ret,            \* the last RoomManager call and what it returned
    nextSocket,     \* socket ids are opaque: the model names them 1, 2, ... in order of first use
    connected,      \* sockets whose connection is open
    joined,         \* socket.io adapter: socketId -> set of socket.io rooms it is in
    handled,        \* the last wire event a socket handler ran for
    sent,           \* the messages that handler's emits delivered
    calls,          \* how many RoomManager calls or wire events have been handled
    scenario,       \* SpecScenario: how far the scenario is, and what it saw at A's entry
    attached,       \* SyncManager.video !== null
    isActive,       \* SyncManager.isActive
    isSyncing,      \* SyncManager.isSyncing
    isBuffering,    \* SyncManager.isBuffering
    serverState,    \* SyncManager.serverState (NoState: null)
    heartbeatInterval,  \* SyncManager.heartbeatInterval is set
    timers,         \* the window.setTimeout timers still pending, oldest first
    paused,         \* video.paused
    playbackRate,   \* video.playbackRate, in percent
    status,         \* the last status given to options.onSyncStatus
    did,            \* what the last step did to the player, and from what inputs
    lastPushed,     \* the last state pushed to an attached, active SyncManager
    events,         \* the player events programmatic operations caused, not yet dispatched
    lastEmittedState,   \* SyncManager.lastEmittedState
    emitted,        \* the player event the last step dispatched, and whether it was sent upstream
    monitor,        \* the content script's AdMonitor: isInAd, and the last callback it fired
    content,        \* the content script: video, isSyncing, its reset timers, the waiting overlay
    requests,       \* the popup's create and join requests at the background script
    up,             \* wire events the extension's socket has emitted, not yet handled by the server
    down,           \* messages delivered to the extension's socket, not yet handled
    clientDid       \* what the last step of the extension did

syncVars == <<attached, isActive, isSyncing, isBuffering, serverState, heartbeatInterval,
              timers, paused, playbackRate, status, did, lastPushed,
              events, lastEmittedState, emitted>>
clientVars == <<monitor, content, requests, up, down, clientDid>>
vars == <<rooms, socketToRoom, nextRoom, now, ret, nextSocket, connected, joined, handled, sent, calls,
          scenario, syncVars, clientVars>>
managerVars == <<rooms, socketToRoom, nextRoom, now, ret>>
wireVars == <<connected, joined, handled, sent>>

----------------------------------------------------------------------------
(* Data *)

Participant(socketId, isHost) == [id |-> socketId, isHost |-> isHost]

\* Date.now(): the clock never runs backwards; between two readings it has
\* moved on, or not yet.
Reading == { t \in {now, now + 1} : t <= MaxClock }

\* createRoom's RoomState literal. participants is kept as a sequence in the
\* insertion order Object.keys() iterates in; usersInAd is the Map's key set
\* (socket id -> AdUserInfo, whose oderId is the key) and startedAt the
\* startedAt of each entry.
NewRoom(hostSocketId, at) ==
    [ hostId       |-> hostSocketId,
      participants |-> << Participant(hostSocketId, TRUE) >>,
      playback     |-> [isPlaying |-> FALSE, timestamp |-> 0, updatedAt |-> at],
      adState      |-> [usersInAd |-> {}, startedAt |-> << >>,
                        resumeTimestamp |-> 0, resumeIsPlaying |-> FALSE] ]

Range(seq) == { seq[i] : i \in 1..Len(seq) }

\* Object.keys(room.participants)
ParticipantIds(room) == [ i \in 1..Len(room.participants) |-> room.participants[i].id ]

\* usersInAd.has(id)
InAd(room, id) == id \in room.adState.usersInAd

\* The uniform shape of a recorded return value.
NoRet ==
    [ op |-> "none", roomId |-> NoRoom, socketId |-> 0, isNull |-> TRUE,
      roomNull |-> FALSE, usersToPause |-> << >>, isFirstAd |-> FALSE,
      allClear |-> FALSE, resumeTimestamp |-> 0, resumeIsPlaying |-> FALSE ]

----------------------------------------------------------------------------
(* RoomManager: pure parts *)

\* room.participants[socketId] = participant: a new key is appended, an
\* existing key keeps its place and has its value replaced.
SetParticipant(parts, p) ==
    IF \E i \in 1..Len(parts) : parts[i].id = p.id
    THEN [ i \in 1..Len(parts) |-> IF parts[i].id = p.id THEN p ELSE parts[i] ]
    ELSE Append(parts, p)

\* joinRoom's effect on the room
JoinedRoom(room, socketId) ==
    [ room EXCEPT !.participants = SetParticipant(@, Participant(socketId, FALSE)) ]

\* delete room.participants[socketId]
RemoveParticipant(parts, socketId) == SelectSeq(parts, LAMBDA p : p.id # socketId)

\* leaveRoom's promotion of remainingParticipants[0]
PromotedRoomLast(room, remaining) ==
    [ room EXCEPT !.hostId = remaining[Len(remaining)].id,
                  !.participants = [ remaining EXCEPT ![Len(remaining)].isHost = TRUE ] ]

PromotedRoom(room, remaining) ==
    [ room EXCEPT !.hostId = remaining[1].id,
                  !.participants = [ remaining EXCEPT ![1].isHost = TRUE ] ]

\* leaveRoom deletes the room: the host left and nobody remains
LeaveDeletesNever(room, socketId) == FALSE

\* A leaveRoom that deletes the room whenever its host leaves
LeaveDeletesUnderOthers(room, socketId) == room.hostId = socketId

LeaveDeletes(room, socketId) ==
    /\ room.hostId = socketId
    /\ Len(RemoveParticipant(room.participants, socketId)) = 0

\* leaveRoom's effect on a room it does not delete
LeftRoom(room, socketId) ==
    LET remaining == RemoveParticipant(room.participants, socketId) IN
    IF room.hostId = socketId /\ Len(remaining) > 0
    THEN PromotedRoom(room, remaining)
    ELSE [ room EXCEPT !.participants = remaining ]

\* updatePlayback's new PlaybackState
NewPlaybackKeepsNewer(old, isPlaying, timestamp, at) ==
    IF timestamp >= old.timestamp
    THEN [isPlaying |-> isPlaying, timestamp |-> timestamp, updatedAt |-> at]
    ELSE [old EXCEPT !.updatedAt = at]

NewPlayback(old, isPlaying, timestamp, at) ==
    [isPlaying |-> isPlaying, timestamp |-> timestamp, updatedAt |-> at]

\* An isFirstAd that is also true when one participant is in the mapping
IsFirstAdUpToOne(room) == Cardinality(room.adState.usersInAd) <= 1

\* const isFirstAd = room.adState.usersInAd.size === 0
IsFirstAd(room) == Cardinality(room.adState.usersInAd) = 0

\* usersInAd.set(socketId, ...)
AdSet(users, socketId) == users \cup {socketId}

\* ... { oderId: socketId, ..., startedAt: Date.now() }): the entry of
\* socketId is written, whether the key was there or not
AdSetStartedAt(startedAt, socketId, at) ==
    [ s \in DOMAIN startedAt \cup {socketId} |->
          IF s = socketId THEN at ELSE startedAt[s] ]

\* startAd's effect on adState
StartAdStateAlwaysSnapshot(room, socketId, at) ==
    [ usersInAd       |-> AdSet(room.adState.usersInAd, socketId),
      startedAt       |-> AdSetStartedAt(room.adState.startedAt, socketId, at),
      resumeTimestamp |-> room.playback.timestamp,
      resumeIsPlaying |-> room.playback.isPlaying ]

StartAdState(room, socketId, at) ==
    [ usersInAd       |-> AdSet(room.adState.usersInAd, socketId),
      startedAt       |-> AdSetStartedAt(room.adState.startedAt, socketId, at),
      resumeTimestamp |-> IF IsFirstAd(room) THEN room.playback.timestamp
                          ELSE room.adState.resumeTimestamp,
      resumeIsPlaying |-> IF IsFirstAd(room) THEN room.playback.isPlaying
                          ELSE room.adState.resumeIsPlaying ]

\* startAd's usersToPause, computed on the room after the caller was added
UsersToPauseOnlyHost(room, socketId) ==
    SelectSeq(ParticipantIds(room),
              LAMBDA id : ~InAd(room, id) /\ id # socketId /\ id = room.hostId)

UsersToPauseIgnoringAds(room, socketId) ==
    SelectSeq(ParticipantIds(room), LAMBDA id : id # socketId)

UsersToPause(room, socketId) ==
    SelectSeq(ParticipantIds(room), LAMBDA id : ~InAd(room, id) /\ id # socketId)

\* usersInAd.delete(socketId)
AdDelete(users, socketId) == users \ {socketId}

\* ... which drops the entry's startedAt with it
AdDeleteStartedAt(startedAt, socketId) ==
    [ s \in DOMAIN startedAt \ {socketId} |-> startedAt[s] ]

\* endAd's effect on adState
EndAdStateClears(adState, socketId) ==
    [ adState EXCEPT !.usersInAd = {}, !.startedAt = << >> ]

EndAdState(adState, socketId) ==
    [ adState EXCEPT !.usersInAd = AdDelete(@, socketId),
                     !.startedAt = AdDeleteStartedAt(@, socketId) ]

\* endAd's allClear, computed on the adState after the delete
AllClearBeforeDelete(adState, before) == Cardinality(before.usersInAd) = 0

AllClear(adState, before) == Cardinality(adState.usersInAd) = 0

\* isEveryoneClearOfAds
IsEveryoneClearOfAdsFailClosed(rms, roomId) ==
    IF roomId \in DOMAIN rms THEN Cardinality(rms[roomId].adState.usersInAd) = 0 ELSE FALSE

IsEveryoneClearOfAds(rms, roomId) ==
    IF roomId \in DOMAIN rms THEN Cardinality(rms[roomId].adState.usersInAd) = 0 ELSE TRUE

\* getAdUsers
GetAdUsers(rms, roomId) ==
    IF roomId \in DOMAIN rms THEN rms[roomId].adState.usersInAd ELSE {}

\* getRoomBySocket, as the room id (NoRoom for null)
GetRoomBySocket(rms, s2r, socketId) ==
    IF s2r[socketId] = NoRoom THEN NoRoom
    ELSE IF s2r[socketId] \in DOMAIN rms THEN s2r[socketId] ELSE NoRoom

----------------------------------------------------------------------------
(* RoomManager: the methods, as actions on managerVars *)

\* generateRoomId draws a random id; the model hands out ids never used before.
createRoom(hostSocketId) ==
    /\ nextRoom <= MaxRooms
    /\ \E at \in Reading :
           /\ now' = at
           /\ rooms' = (nextRoom :> NewRoom(hostSocketId, at)) @@ rooms
    /\ socketToRoom' = [socketToRoom EXCEPT ![hostSocketId] = nextRoom]
    /\ nextRoom' = nextRoom + 1
    /\ ret' = [NoRet EXCEPT !.op = "createRoom", !.roomId = nextRoom,
                            !.socketId = hostSocketId, !.isNull = FALSE]

\* joinRoom, had it taken the joining socket out of the rosters of other rooms
joinRoomLeavingOthers(roomId, socketId) ==
    IF roomId \notin DOMAIN rooms
    THEN /\ ret' = [NoRet EXCEPT !.op = "joinRoom", !.roomId = roomId, !.socketId = socketId]
         /\ UNCHANGED <<rooms, socketToRoom, nextRoom, now>>
    ELSE /\ rooms' = [ r \in DOMAIN rooms |->
                          IF r = roomId THEN JoinedRoom(rooms[r], socketId)
                          ELSE [rooms[r] EXCEPT !.participants = RemoveParticipant(@, socketId)] ]
         /\ socketToRoom' = [socketToRoom EXCEPT ![socketId] = roomId]
         /\ ret' = [NoRet EXCEPT !.op = "joinRoom", !.roomId = roomId,
                                 !.socketId = socketId, !.isNull = FALSE]
         /\ UNCHANGED <<nextRoom, now>>

joinRoom(roomId, socketId) ==
    IF roomId \notin DOMAIN rooms
    THEN /\ ret' = [NoRet EXCEPT !.op = "joinRoom", !.roomId = roomId, !.socketId = socketId]
         /\ UNCHANGED <<rooms, socketToRoom, nextRoom, now>>
    ELSE /\ rooms' = [rooms EXCEPT ![roomId] = JoinedRoom(@, socketId)]
         /\ socketToRoom' = [socketToRoom EXCEPT ![socketId] = roomId]
         /\ ret' = [NoRet EXCEPT !.op = "joinRoom", !.roomId = roomId,
                                 !.socketId = socketId, !.isNull = FALSE]
         /\ UNCHANGED <<nextRoom, now>>

leaveRoom(socketId) ==
    LET roomId == socketToRoom[socketId] IN
    IF roomId = NoRoom \/ roomId \notin DOMAIN rooms
    THEN /\ ret' = [NoRet EXCEPT !.op = "leaveRoom", !.socketId = socketId]
         /\ UNCHANGED <<rooms, socketToRoom, nextRoom, now>>
    ELSE /\ socketToRoom' = [socketToRoom EXCEPT ![socketId] = NoRoom]
         /\ IF LeaveDeletes(rooms[roomId], socketId)
            THEN /\ rooms' = [ r \in DOMAIN rooms \ {roomId} |-> rooms[r] ]
                 /\ ret' = [NoRet EXCEPT !.op = "leaveRoom", !.roomId = roomId,
                                         !.socketId = socketId, !.isNull = FALSE,
                                         !.roomNull = TRUE]
            ELSE /\ rooms' = [rooms EXCEPT ![roomId] = LeftRoom(@, socketId)]
                 /\ ret' = [NoRet EXCEPT !.op = "leaveRoom", !.roomId = roomId,
                                         !.socketId = socketId, !.isNull = FALSE]
         /\ UNCHANGED <<nextRoom, now>>

updatePlayback(roomId, isPlaying, timestamp) ==
    IF roomId \notin DOMAIN rooms
    THEN /\ ret' = [NoRet EXCEPT !.op = "updatePlayback", !.roomId = roomId]
         /\ UNCHANGED <<rooms, socketToRoom, nextRoom, now>>
    ELSE /\ \E at \in Reading :
                /\ now' = at
                /\ rooms' = [rooms EXCEPT ![roomId].playback =
                                 NewPlayback(@, isPlaying, timestamp, at)]
         /\ ret' = [NoRet EXCEPT !.op = "updatePlayback", !.roomId = roomId, !.isNull = FALSE]
         /\ UNCHANGED <<socketToRoom, nextRoom>>

startAd(roomId, socketId) ==
    IF roomId \notin DOMAIN rooms
    THEN /\ ret' = [NoRet EXCEPT !.op = "startAd", !.roomId = roomId, !.socketId = socketId]
         /\ UNCHANGED <<rooms, socketToRoom, nextRoom, now>>
    ELSE /\ \E at \in Reading :
                /\ now' = at
                /\ rooms' = [rooms EXCEPT ![roomId].adState =
                                 StartAdState(rooms[roomId], socketId, at)]
         /\ ret' = [NoRet EXCEPT !.op = "startAd", !.roomId = roomId,
                                 !.socketId = socketId, !.isNull = FALSE,
                                 !.usersToPause = UsersToPause(rooms'[roomId], socketId),
                                 !.isFirstAd = IsFirstAd(rooms[roomId])]
         /\ UNCHANGED <<socketToRoom, nextRoom>>

endAd(roomId, socketId) ==
    IF roomId \notin DOMAIN rooms
    THEN /\ ret' = [NoRet EXCEPT !.op = "endAd", !.roomId = roomId, !.socketId = socketId]
         /\ UNCHANGED <<rooms, socketToRoom, nextRoom, now>>
    ELSE /\ rooms' = [rooms EXCEPT ![roomId].adState = EndAdState(@, socketId)]
         /\ ret' = [NoRet EXCEPT !.op = "endAd", !.roomId = roomId,
                                 !.socketId = socketId, !.isNull = FALSE,
                                 !.allClear = AllClear(rooms'[roomId].adState, rooms[roomId].adState),
                                 !.resumeTimestamp = rooms[roomId].adState.resumeTimestamp,
                                 !.resumeIsPlaying = rooms[roomId].adState.resumeIsPlaying]
         /\ UNCHANGED <<socketToRoom, nextRoom, now>>

----------------------------------------------------------------------------
(* SyncManager (the client's reconciliation loop): configuration and the
   state after construction. Positions and clock values are in milliseconds,
   playback rates in percent. *)

\* SYNC_CONFIG
DRIFT_TOLERANCE == 500
DRIFT_SOFT_THRESHOLD == 2000
DRIFT_HARD_THRESHOLD == 5000
RATE_SPEEDUP == 105
RATE_SLOWDOWN == 95
RATE_NORMAL == 100
RATE_ADJUSTMENT_DURATION == 3000
BUFFERING_TIMEOUT == 500
\* the delays of performSync's isSyncing reset and of the re-sync after buffering
SYNCING_RESET_DELAY == 300
RESYNC_DELAY == 100
\* emitUpdate's debounce distance
EMIT_DEBOUNCE == 500

\* serverState === null
NoState == [isNull |-> TRUE, isPlaying |-> FALSE, timestamp |-> 0, serverTime |-> 0]

\* Nothing was done to the player
NoDid ==
    [ trigger |-> "none", ops |-> {}, ran |-> FALSE, state |-> NoState,
      local |-> 0, clock |-> 0, seekTo |-> 0 ]

\* No player event was dispatched
NoEmit ==
    [ event |-> "none", origin |-> "none", inFlight |-> FALSE, sent |-> FALSE,
      isPlaying |-> FALSE, timestamp |-> 0 ]

InitSync ==
    /\ attached = FALSE
    /\ isActive = FALSE
    /\ isSyncing = FALSE
    /\ isBuffering = FALSE
    /\ serverState = NoState
    /\ heartbeatInterval = FALSE
    /\ timers = << >>
    /\ paused = TRUE
    /\ playbackRate = RATE_NORMAL
    /\ status = "none"
    /\ did = NoDid
    /\ lastPushed = NoState
    /\ events = << >>
    /\ lastEmittedState = [isPlaying |-> FALSE, timestamp |-> 0]
    /\ emitted = NoEmit

----------------------------------------------------------------------------
(* The browser extension (content script, AdMonitor, background script): the
   state after the scripts have loaded *)

\* new AdMonitor(...): isInAd = false, and no callback fired yet
NewMonitor == [isInAd |-> FALSE, last |-> "none"]

\* The content script on a page where no video element was found yet
NewContent ==
    [ video |-> FALSE, isSyncing |-> FALSE, paused |-> TRUE, overlay |-> FALSE, resets |-> 0 ]

\* The extension did nothing
NoClientDid ==
    [ step |-> "none", adPlaying |-> FALSE, fired |-> "none", playing |-> FALSE, ops |-> {} ]

InitClient ==
    /\ monitor = NewMonitor
    /\ content = NewContent
    /\ requests = << >>
    /\ up = << >>
    /\ down = << >>
    /\ clientDid = NoClientDid

----------------------------------------------------------------------------
(* Spec: the RoomManager API called directly *)

\* The scenario of SpecScenario has not started
NoScenario == [step |-> 0, told |-> << >>, captured |-> << 0, FALSE >>]

Init ==
    /\ rooms = << >>
    /\ socketToRoom = [ s \in Sockets |-> NoRoom ]
    /\ nextRoom = 1
    /\ now = 0
    /\ ret = NoRet
    /\ nextSocket = 1
    /\ connected = {}
    /\ joined = [ s \in Sockets |-> {} ]
    /\ handled = [event |-> "none", socket |-> 0, isPlaying |-> FALSE, timestamp |-> 0]
    /\ sent = {}
    /\ calls = 0
    /\ scenario = NoScenario
    /\ InitSync
    /\ InitClient

\* The caller names a socket id already seen, or the next new one.
Names(s) ==
    /\ s <= nextSocket
    /\ nextSocket' = IF s = nextSocket THEN nextSocket + 1 ELSE nextSocket

CallCreateRoom ==
    \E s \in Sockets : Names(s) /\ createRoom(s) /\ UNCHANGED wireVars
CallJoinRoom ==
    \E r \in RoomIds, s \in Sockets : Names(s) /\ joinRoom(r, s) /\ UNCHANGED wireVars
CallLeaveRoom ==
    \E s \in Sockets : Names(s) /\ leaveRoom(s) /\ UNCHANGED wireVars
CallUpdatePlayback ==
    \E r \in RoomIds, p \in BOOLEAN, t \in Timestamps :
        updatePlayback(r, p, t) /\ UNCHANGED <<wireVars, nextSocket>>
CallStartAd ==
    \E r \in RoomIds, s \in Sockets : Names(s) /\ startAd(r, s) /\ UNCHANGED wireVars
CallEndAd ==
    \E r \in RoomIds, s \in Sockets : Names(s) /\ endAd(r, s) /\ UNCHANGED wireVars

\* One more call fits the bound on the length of a run.
Tick == calls < MaxCalls /\ calls' = calls + 1 /\ UNCHANGED <<scenario, syncVars, clientVars>>

Next ==
    \/ Tick /\ CallCreateRoom
    \/ Tick /\ CallJoinRoom
    \/ Tick /\ CallLeaveRoom
    \/ Tick /\ CallUpdatePlayback
    \/ Tick /\ CallStartAd
    \/ Tick /\ CallEndAd

Spec == Init /\ [][Next]_vars

----------------------------------------------------------------------------
(* SpecScenario: the ad scenarios of the handler tests. A room of Host, A and
   B is set up as the tests' beforeEach does; then A enters an ad, B enters
   an ad, A leaves its ad, B leaves its ad, with playback updates arriving in
   between. *)

Host == 1
UserA == 2
UserB == 3

\* beforeEach: createRoom(host), joinRoom(A), joinRoom(B), updatePlayback
ScenarioRoom(isPlaying, timestamp) ==
    LET room == JoinedRoom(JoinedRoom(NewRoom(Host, 0), UserA), UserB)
    IN [ room EXCEPT !.playback = NewPlayback(@, isPlaying, timestamp, 0) ]

InitScenario ==
    /\ \E p \in BOOLEAN, t \in Timestamps : rooms = (1 :> ScenarioRoom(p, t))
    /\ socketToRoom = [ s \in Sockets |-> IF s \in {Host, UserA, UserB} THEN 1 ELSE NoRoom ]
    /\ nextRoom = 2
    /\ now = 0
    /\ ret = [NoRet EXCEPT !.op = "updatePlayback", !.roomId = 1, !.isNull = FALSE]
    /\ nextSocket = 4
    /\ connected = {}
    /\ joined = [ s \in Sockets |-> {} ]
    /\ handled = [event |-> "none", socket |-> 0, isPlaying |-> FALSE, timestamp |-> 0]
    /\ sent = {}
    /\ calls = 0
    /\ scenario = NoScenario
    /\ InitSync
    /\ InitClient

ScenarioAEnters ==
    /\ scenario.step = 0
    /\ startAd(1, UserA)
    /\ scenario' = [ step |-> 1, told |-> ret'.usersToPause,
                     captured |-> << rooms[1].playback.timestamp, rooms[1].playback.isPlaying >> ]
    /\ UNCHANGED <<wireVars, nextSocket, calls, syncVars, clientVars>>

ScenarioBEnters ==
    /\ scenario.step = 1
    /\ startAd(1, UserB)
    /\ scenario' = [scenario EXCEPT !.step = 2]
    /\ UNCHANGED <<wireVars, nextSocket, calls, syncVars, clientVars>>

ScenarioAExits ==
    /\ scenario.step = 2
    /\ endAd(1, UserA)
    /\ scenario' = [scenario EXCEPT !.step = 3]
    /\ UNCHANGED <<wireVars, nextSocket, calls, syncVars, clientVars>>

ScenarioBExits ==
    /\ scenario.step = 3
    /\ endAd(1, UserB)
    /\ scenario' = [scenario EXCEPT !.step = 4]
    /\ UNCHANGED <<wireVars, nextSocket, calls, syncVars, clientVars>>

\* A playback update arrives in between
ScenarioPlayback ==
    /\ scenario.step < 4
    /\ Tick
    /\ CallUpdatePlayback

NextScenario ==
    \/ ScenarioAEnters
    \/ ScenarioBEnters
    \/ ScenarioAExits
    \/ ScenarioBExits
    \/ ScenarioPlayback

SpecScenario == InitScenario /\ [][NextScenario]_vars

----------------------------------------------------------------------------
(* socket.io: who an emit reaches *)

\* The uniform shape of a delivered message.
Msg(event, from) ==
    [ to |-> 0, event |-> event, from |-> from, usersInAd |-> {},
      timestamp |-> 0, isPlaying |-> FALSE, updatedAt |-> 0 ]

\* The open sockets in socket.io room roomId
Members(conn, jn, roomId) == { t \in conn : roomId \in jn[t] }

\* socket.emit(...) and io.to(socketId).emit(...): the one socket, if it is open
ToSocket(conn, socketId, m) ==
    IF socketId \in conn THEN { [m EXCEPT !.to = socketId] } ELSE {}

\* io.to(roomId).emit(...)
ToRoom(conn, jn, roomId, m) ==
    { [m EXCEPT !.to = t] : t \in Members(conn, jn, roomId) }

\* socket.to(roomId).emit(...): the room without the sender
ToOthers(conn, jn, roomId, sender, m) ==
    { [m EXCEPT !.to = t] : t \in Members(conn, jn, roomId) \ {sender} }

----------------------------------------------------------------------------
(* Socket handlers *)

\* The event handled, the socket it came from and, for a playback_update that
\* got past the early return, the payload's isPlaying and timestamp
HandledWith(event, socket, isPlaying, timestamp) ==
    handled' = [ event |-> event, socket |-> socket,
                 isPlaying |-> isPlaying, timestamp |-> timestamp ]

Handled(event, socket) == HandledWith(event, socket, FALSE, 0)

\* A handler that returns before touching anything
Ignored(event, socket) ==
    /\ Handled(event, socket)
    /\ sent' = {}
    /\ UNCHANGED <<managerVars, connected, joined, nextSocket>>

\* io.on('connection'): a new socket with a new id; only registers handlers
OnConnection ==
    /\ nextSocket <= MaxSockets
    /\ connected' = connected \cup {nextSocket}
    /\ nextSocket' = nextSocket + 1
    /\ Handled("connection", nextSocket)
    /\ sent' = {}
    /\ UNCHANGED <<managerVars, joined>>

OnCreateRoom(s) ==
    /\ s \in connected
    /\ createRoom(s)
    /\ joined' = [joined EXCEPT ![s] = @ \cup {ret'.roomId}]
    /\ sent' = ToSocket(connected, s, Msg("room_created", s))
    /\ Handled("create_room", s)
    /\ UNCHANGED <<connected, nextSocket>>

OnJoinRoom(s, roomId) ==
    /\ s \in connected
    /\ joinRoom(roomId, s)
    /\ IF ret'.isNull
       THEN /\ sent' = ToSocket(connected, s, Msg("error", s))
            /\ UNCHANGED joined
       ELSE /\ joined' = [joined EXCEPT ![s] = @ \cup {roomId}]
            /\ sent' = ToSocket(connected, s,
                          [Msg("room_joined", s) EXCEPT
                              !.timestamp = rooms'[roomId].playback.timestamp,
                              !.isPlaying = rooms'[roomId].playback.isPlaying])
                       \cup ToOthers(connected, joined', roomId, s, Msg("participant_joined", s))
    /\ Handled("join_room", s)
    /\ UNCHANGED <<connected, nextSocket>>

\* handleLeaveRoom, run for a socket whose open connections and socket.io
\* rooms are conn and jn
handleLeaveRoom(s, conn, jn) ==
    /\ leaveRoom(s)
    /\ IF ret'.isNull
       THEN /\ joined' = jn
            /\ sent' = {}
       ELSE /\ joined' = [jn EXCEPT ![s] = @ \ {ret'.roomId}]
            /\ sent' = IF ret'.roomNull THEN {}
                       ELSE ToOthers(conn, joined', ret'.roomId, s, Msg("participant_left", s))

OnLeaveRoom(s) ==
    /\ s \in connected
    /\ handleLeaveRoom(s, connected, joined)
    /\ Handled("leave_room", s)
    /\ UNCHANGED <<connected, nextSocket>>

\* 'disconnect' fires once the connection is closed and socket.io has taken
\* the socket out of all its rooms
OnDisconnect(s) ==
    /\ s \in connected
    /\ connected' = connected \ {s}
    /\ handleLeaveRoom(s, connected', [joined EXCEPT ![s] = {}])
    /\ Handled("disconnect", s)
    /\ UNCHANGED nextSocket

\* PLAYBACK_UPDATE's sync_state: { playback, senderId }
SyncStateMsg(playback, s) ==
    [ Msg("sync_state", s) EXCEPT !.timestamp = playback.timestamp,
                                  !.isPlaying = playback.isPlaying,
                                  !.updatedAt = playback.updatedAt ]

OnPlaybackUpdate(s, isPlaying, timestamp) ==
    /\ s \in connected
    /\ LET roomId == GetRoomBySocket(rooms, socketToRoom, s) IN
       IF roomId = NoRoom
       THEN Ignored("playback_update", s)
       ELSE /\ updatePlayback(roomId, isPlaying, timestamp)
            /\ sent' = ToOthers(connected, joined, roomId, s,
                          SyncStateMsg(rooms'[roomId].playback, s))
            /\ HandledWith("playback_update", s, isPlaying, timestamp)
            /\ UNCHANGED <<connected, joined, nextSocket>>

\* AD_STARTED's pause_for_ad emits, one per user of usersToPause
PauseOthers(conn, room, adUsers, usersToPause, s) ==
    UNION { ToSocket(conn, usersToPause[i],
                     [Msg("pause_for_ad", s) EXCEPT
                         !.usersInAd = adUsers,
                         !.timestamp = room.playback.timestamp])
            : i \in 1..Len(usersToPause) }

OnAdStarted(s) ==
    /\ s \in connected
    /\ LET roomId == GetRoomBySocket(rooms, socketToRoom, s) IN
       IF roomId = NoRoom
       THEN Ignored("ad_started", s)
       ELSE /\ startAd(roomId, s)
            /\ sent' = PauseOthers(connected, rooms'[roomId], GetAdUsers(rooms', roomId),
                                   ret'.usersToPause, s)
                       \cup ToOthers(connected, joined, roomId, s,
                               [Msg("ad_state_update", s) EXCEPT
                                   !.usersInAd = GetAdUsers(rooms', roomId)])
            /\ Handled("ad_started", s)
            /\ UNCHANGED <<connected, joined, nextSocket>>

\* AD_FINISHED's answer: resume_all to the room on allClear, else
\* pause_for_ad back to the caller
AdFinishedAnswerAlwaysResume(conn, jn, roomId, adUsers, result, s) ==
    ToRoom(conn, jn, roomId,
           [Msg("resume_all", s) EXCEPT !.timestamp = result.resumeTimestamp,
                                        !.isPlaying = result.resumeIsPlaying])

AdFinishedAnswer(conn, jn, roomId, adUsers, result, s) ==
    IF result.allClear
    THEN ToRoom(conn, jn, roomId,
                [Msg("resume_all", s) EXCEPT !.timestamp = result.resumeTimestamp,
                                             !.isPlaying = result.resumeIsPlaying])
    ELSE ToSocket(conn, s,
                [Msg("pause_for_ad", s) EXCEPT !.usersInAd = adUsers,
                                               !.timestamp = result.resumeTimestamp])

OnAdFinished(s) ==
    /\ s \in connected
    /\ LET roomId == GetRoomBySocket(rooms, socketToRoom, s) IN
       IF roomId = NoRoom
       THEN Ignored("ad_finished", s)
       ELSE /\ endAd(roomId, s)
            /\ sent' = AdFinishedAnswer(connected, joined, roomId,
                                        GetAdUsers(rooms', roomId), ret', s)
                       \cup ToOthers(connected, joined, roomId, s,
                               [Msg("ad_state_update", s) EXCEPT
                                   !.usersInAd = GetAdUsers(rooms', roomId)])
            /\ Handled("ad_finished", s)
            /\ UNCHANGED <<connected, joined, nextSocket>>

EvCreateRoom == \E s \in Sockets : OnCreateRoom(s)
EvJoinRoom == \E s \in Sockets, r \in RoomIds : OnJoinRoom(s, r)
EvLeaveRoom == \E s \in Sockets : OnLeaveRoom(s)
EvDisconnect == \E s \in Sockets : OnDisconnect(s)
EvPlaybackUpdate ==
    \E s \in Sockets, p \in BOOLEAN, t \in Timestamps : OnPlaybackUpdate(s, p, t)
EvAdStarted == \E s \in Sockets : OnAdStarted(s)
EvAdFinished == \E s \in Sockets : OnAdFinished(s)

\* One more wire event fits the bound on the length of a run.
TickEvent == calls < MaxEvents /\ calls' = calls + 1 /\ UNCHANGED <<scenario, syncVars, clientVars>>

NextServer ==
    \/ OnConnection /\ UNCHANGED <<calls, scenario, syncVars, clientVars>>
    \/ TickEvent /\ EvCreateRoom
    \/ TickEvent /\ EvJoinRoom
    \/ TickEvent /\ EvLeaveRoom
    \/ TickEvent /\ EvDisconnect
    \/ TickEvent /\ EvPlaybackUpdate
    \/ TickEvent /\ EvAdStarted
    \/ TickEvent /\ EvAdFinished

SpecServer == Init /\ [][NextServer]_vars

----------------------------------------------------------------------------
(* SyncManager: the client's reconciliation loop *)

\* The remote states a server pushes: playing or paused at 100 s, sent at
\* server time T = 1000
RemoteStates ==
    { [isNull |-> FALSE, isPlaying |-> p, timestamp |-> 100000, serverTime |-> 1000] :
          p \in BOOLEAN }

\* video.currentTime when performSync reads it: in step with the remote
\* position or away from it, on both sides of every threshold
LocalPositions == {100000, 100500, 100501, 103000, 103001, 107000}

\* Date.now() when performSync reads it: T, or one second later
Clocks == {1000, 2000}

Abs(x) == IF x < 0 THEN 0 - x ELSE x

\* performSync's estimatedServerTime
EstimatedServerTime(state, clock) ==
    IF state.isPlaying
    THEN state.timestamp + (clock - state.serverTime)
    ELSE state.timestamp

\* performSync's drift bands, as the status it reports
DriftClassSoftExclusive(absDrift) ==
    IF absDrift <= DRIFT_TOLERANCE THEN "synced"
    ELSE IF absDrift < DRIFT_SOFT_THRESHOLD THEN "adjusting"
    ELSE "seeking"

DriftClass(absDrift) ==
    IF absDrift <= DRIFT_TOLERANCE THEN "synced"
    ELSE IF absDrift <= DRIFT_SOFT_THRESHOLD THEN "adjusting"
    ELSE IF absDrift <= DRIFT_HARD_THRESHOLD THEN "seeking"
    ELSE "seeking"

\* window.setTimeout(callback, delay) of each kind of timer
Delay(kind) ==
    CASE kind = "buffering" -> BUFFERING_TIMEOUT
      [] kind = "syncing"   -> SYNCING_RESET_DELAY
      [] kind = "rate"      -> RATE_ADJUSTMENT_DURATION
      [] kind = "resync"    -> RESYNC_DELAY

\* A timer of this kind is set. cur marks the timer whose handle the
\* SyncManager holds (bufferingTimeout, rateAdjustmentTimeout): setting a new
\* one overwrites the handle of the one before. The handles of the other two
\* kinds are not kept.
SetTimer(tms, kind) ==
    Append([ i \in 1..Len(tms) |->
                 IF tms[i].kind = kind THEN [tms[i] EXCEPT !.cur = FALSE] ELSE tms[i] ],
           [kind |-> kind, cur |-> kind \in {"buffering", "rate"}])

\* A clearTimeout that cancels nothing
ClearTimerNone(tms, kind) == tms

\* clearTimeout(handle): the timer the handle names, if it is still pending
ClearTimer(tms, kind) == SelectSeq(tms, LAMBDA t : ~(t.kind = kind /\ t.cur))

RemoveTimer(tms, i) == [ j \in 1..(Len(tms) - 1) |-> IF j < i THEN tms[j] ELSE tms[j + 1] ]

\* Timers fire in the order they fall due: a timer set earlier, or in the
\* same call, with a delay no longer than this one's fires before it.
CanFire(tms, i) == \A j \in 1..(i - 1) : Delay(tms[j].kind) > Delay(tms[i].kind)

\* Every variable of the SyncManager but those performSync writes
PerformSyncLeaves == <<attached, isActive, isBuffering, heartbeatInterval>>

\* performSync(state), run by trigger with the pending timers tms, after the
\* trigger has already put the playback rate at rate0 by the player
\* operations ops0
performSync(state, tms, rate0, ops0, trigger) ==
    IF ~attached
    THEN /\ timers' = tms
         /\ playbackRate' = rate0
         /\ did' = [NoDid EXCEPT !.trigger = trigger, !.ops = ops0]
         /\ UNCHANGED <<isSyncing, paused, status>>
    ELSE \E local \in LocalPositions, clock \in Clocks :
         LET estimatedServerTime == EstimatedServerTime(state, clock)
             drift == local - estimatedServerTime
             class == DriftClass(Abs(drift))
             playOps == IF state.isPlaying /\ paused THEN {"play"}
                        ELSE IF ~state.isPlaying /\ ~paused THEN {"pause"}
                        ELSE {}
             newRate == IF class = "adjusting"
                        THEN (IF drift > 0 THEN RATE_SLOWDOWN ELSE RATE_SPEEDUP)
                        ELSE RATE_NORMAL
             rateOps == IF newRate # rate0 THEN {"rate"} ELSE {}
             seekOps == IF class = "seeking" THEN {"seek"} ELSE {}
             \* the isSyncing reset and the rate timer are set in the same
             \* call; the reset, with the shorter delay, falls due first
             tms1 == IF class = "adjusting"
                     THEN SetTimer(SetTimer(ClearTimer(tms, "rate"), "syncing"), "rate")
                     ELSE SetTimer(tms, "syncing")
         IN /\ isSyncing' = TRUE
            /\ paused' = ~state.isPlaying
            /\ playbackRate' = newRate
            /\ status' = class
            /\ timers' = tms1
            /\ did' = [ trigger |-> trigger,
                        ops     |-> ops0 \cup playOps \cup rateOps \cup seekOps,
                        ran     |-> TRUE,
                        state   |-> state,
                        local   |-> local,
                        clock   |-> clock,
                        seekTo  |-> IF class = "seeking" THEN estimatedServerTime ELSE 0 ]

\* A step that does nothing to the player
Quiet(trigger) == did' = [NoDid EXCEPT !.trigger = trigger]

\* resetPlaybackRate, as the player operations it makes
ResetRateOps == IF attached /\ playbackRate # RATE_NORMAL THEN {"rate"} ELSE {}

\* attach(videoEl): the element is playing or paused; the listeners are set up
attach ==
    /\ ~attached
    /\ attached' = TRUE
    /\ paused' \in BOOLEAN
    /\ Quiet("attach")
    /\ UNCHANGED <<isActive, isSyncing, isBuffering, serverState, heartbeatInterval,
                   timers, playbackRate, status, lastPushed>>

activate ==
    /\ isActive' = TRUE
    /\ heartbeatInterval' = TRUE
    /\ Quiet("activate")
    /\ UNCHANGED <<attached, isSyncing, isBuffering, serverState, timers, paused,
                   playbackRate, status, lastPushed>>

deactivate ==
    /\ isActive' = FALSE
    /\ heartbeatInterval' = FALSE
    /\ playbackRate' = RATE_NORMAL
    /\ did' = [NoDid EXCEPT !.trigger = "deactivate", !.ops = ResetRateOps]
    /\ UNCHANGED <<attached, isSyncing, isBuffering, serverState, timers, paused,
                   status, lastPushed>>

handleServerState(state) ==
    /\ lastPushed' = IF attached /\ isActive THEN state ELSE lastPushed
    /\ IF ~attached \/ ~isActive \/ isSyncing
       THEN /\ Quiet("serverState")
            /\ UNCHANGED <<attached, isActive, isSyncing, isBuffering, serverState,
                           heartbeatInterval, timers, paused, playbackRate, status>>
       ELSE /\ serverState' = state
            /\ IF isBuffering
               THEN /\ Quiet("serverState")
                    /\ UNCHANGED <<attached, isActive, isSyncing, isBuffering,
                                   heartbeatInterval, timers, paused, playbackRate, status>>
               ELSE /\ performSync(state, timers, playbackRate, {}, "serverState")
                    /\ UNCHANGED PerformSyncLeaves

\* The setInterval callback of startHeartbeat
HeartbeatFires ==
    /\ heartbeatInterval
    /\ IF ~serverState.isNull /\ ~isBuffering /\ ~isSyncing
       THEN performSync(serverState, timers, playbackRate, {}, "heartbeat")
       ELSE /\ Quiet("heartbeat")
            /\ UNCHANGED <<isSyncing, timers, paused, playbackRate, status>>
    /\ UNCHANGED <<PerformSyncLeaves, serverState, lastPushed>>

\* The 'waiting' listener's timer: buffering is detected
BufferingTimerFires(i) ==
    /\ timers[i].kind = "buffering"
    /\ isBuffering' = TRUE
    /\ status' = "buffering"
    /\ timers' = RemoveTimer(timers, i)
    /\ Quiet("buffering")
    /\ UNCHANGED <<attached, isActive, isSyncing, serverState, heartbeatInterval,
                   paused, playbackRate, lastPushed>>

\* performSync's timer: the isSyncing flag is reset
SyncingTimerFires(i) ==
    /\ timers[i].kind = "syncing"
    /\ isSyncing' = FALSE
    /\ timers' = RemoveTimer(timers, i)
    /\ Quiet("syncing")
    /\ UNCHANGED <<attached, isActive, isBuffering, serverState, heartbeatInterval,
                   paused, playbackRate, status, lastPushed>>

\* adjustPlaybackRate's timer: the rate is reset and the drift checked again
RateTimerFires(i) ==
    /\ timers[i].kind = "rate"
    /\ IF ~serverState.isNull
       THEN performSync(serverState, RemoveTimer(timers, i), RATE_NORMAL, ResetRateOps, "rate")
       ELSE /\ timers' = RemoveTimer(timers, i)
            /\ playbackRate' = RATE_NORMAL
            /\ did' = [NoDid EXCEPT !.trigger = "rate", !.ops = ResetRateOps]
            /\ UNCHANGED <<isSyncing, paused, status>>
    /\ UNCHANGED <<PerformSyncLeaves, serverState, lastPushed>>

\* The 'playing' listener's timer: the re-sync after buffering
ResyncTimerFires(i) ==
    /\ timers[i].kind = "resync"
    /\ performSync(serverState, RemoveTimer(timers, i), playbackRate, {}, "resync")
    /\ UNCHANGED <<PerformSyncLeaves, serverState, lastPushed>>

TimerFires ==
    \E i \in 1..Len(timers) :
        /\ CanFire(timers, i)
        /\ \/ BufferingTimerFires(i)
           \/ SyncingTimerFires(i)
           \/ RateTimerFires(i)
           \/ ResyncTimerFires(i)

\* The video's 'waiting' event
Waiting ==
    /\ attached
    /\ timers' = SetTimer(timers, "buffering")
    /\ Quiet("waiting")
    /\ UNCHANGED <<attached, isActive, isSyncing, isBuffering, serverState,
                   heartbeatInterval, paused, playbackRate, status, lastPushed>>

\* The video's 'playing' event
Playing ==
    /\ attached
    /\ isBuffering' = FALSE
    /\ timers' = IF isBuffering /\ ~serverState.isNull
                 THEN SetTimer(ClearTimer(timers, "buffering"), "resync")
                 ELSE ClearTimer(timers, "buffering")
    /\ Quiet("playing")
    /\ UNCHANGED <<attached, isActive, isSyncing, serverState, heartbeatInterval,
                   paused, playbackRate, status, lastPushed>>

\* The video's 'canplay' event
CanPlay ==
    /\ attached
    /\ timers' = ClearTimer(timers, "buffering")
    /\ Quiet("canplay")
    /\ UNCHANGED <<attached, isActive, isSyncing, isBuffering, serverState,
                   heartbeatInterval, paused, playbackRate, status, lastPushed>>

\* video.currentTime when the user plays, pauses or seeks: at, just short of,
\* on and just past the debounce distance from the start
UserPositions == {0, 499, 500, 501}

\* The player events play(), pause() and a write to currentTime cause:
\* 'play', 'pause' and, once the seek has completed, 'seeked'. Each comes with
\* the position the player is at, and with how many isSyncing resets are due
\* before the reset of the performSync that caused it (older): until that
\* reset has fired (older = -1) the correction is within its guard's delay.
CausedEvents(d, tms) ==
    LET older == Cardinality({ i \in 1..Len(tms) : tms[i].kind = "syncing" }) - 1
        ev(name, at) == [name |-> name, position |-> at, older |-> older]
    IN (IF "play" \in d.ops THEN << ev("play", d.local) >> ELSE << >>)
       \o (IF "pause" \in d.ops THEN << ev("pause", d.local) >> ELSE << >>)
       \o (IF "seek" \in d.ops THEN << ev("seeked", d.seekTo) >> ELSE << >>)

\* An isSyncing reset fired: the oldest one due
ResetFired(evs) == [ i \in 1..Len(evs) |->
                       [evs[i] EXCEPT !.older = IF @ >= 0 THEN @ - 1 ELSE @] ]

\* A new seek aborts the seek still in progress: its 'seeked' never fires
WithoutSeeked(evs) == SelectSeq(evs, LAMBDA e : e.name # "seeked")

\* 'play' and 'pause' are dispatched as soon as the call that caused them has
\* returned, before any timer or other event; 'seeked' is dispatched when the
\* media has loaded the new position.
Urgent(evs) == \E i \in 1..Len(evs) : evs[i].name \in {"play", "pause"}

NextEvent(evs) ==
    IF Urgent(evs)
    THEN CHOOSE i \in 1..Len(evs) :
             /\ evs[i].name \in {"play", "pause"}
             /\ \A j \in 1..(i - 1) : evs[j].name = "seeked"
    ELSE 1

\* A step of the SyncManager that dispatches no player event: what it did to
\* the player queues the events that follow from it
Programmatic ==
    /\ ~Urgent(events)
    /\ events' = LET left == IF did'.trigger = "syncing" THEN ResetFired(events) ELSE events
                 IN IF did'.ran
                    THEN (IF "seek" \in did'.ops THEN WithoutSeeked(left) ELSE left)
                         \o CausedEvents(did', timers')
                    ELSE left
    /\ emitted' = NoEmit
    /\ UNCHANGED lastEmittedState

\* emitUpdate's debounce: whether the update goes out
EmitUpdateSends(last, isPlaying, timestamp) ==
    ~(last.isPlaying = isPlaying /\ Abs(last.timestamp - timestamp) < EMIT_DEBOUNCE)

\* The 'play', 'pause' and 'seeked' listeners with emitUpdate: the event name
\* was caused by the user or by a correction (origin, inFlight), with the
\* player at position and paused as isPaused
Listener(name, origin, inFlight, position, isPaused) ==
    LET isPlaying == CASE name = "play"  -> TRUE
                       [] name = "pause" -> FALSE
                       [] OTHER          -> ~isPaused
        send == /\ ~isSyncing /\ isActive
                /\ EmitUpdateSends(lastEmittedState, isPlaying, position)
    IN /\ lastEmittedState' = IF send THEN [isPlaying |-> isPlaying, timestamp |-> position]
                                      ELSE lastEmittedState
       /\ emitted' = [ event |-> name, origin |-> origin, inFlight |-> inFlight,
                       sent |-> send, isPlaying |-> isPlaying, timestamp |-> position ]
       /\ Quiet(name)
       /\ UNCHANGED <<attached, isActive, isSyncing, isBuffering, serverState,
                      heartbeatInterval, timers, playbackRate, status, lastPushed>>

\* An event a correction caused is dispatched
DispatchEvent ==
    /\ attached
    /\ events # << >>
    /\ LET i == NextEvent(events) IN
       /\ Listener(events[i].name, "correction", events[i].older >= 0,
                   events[i].position, paused)
       /\ events' = [ j \in 1..(Len(events) - 1) |->
                         IF j < i THEN events[j] ELSE events[j + 1] ]
    /\ UNCHANGED paused

\* The user presses play or pause, or seeks
UserPlay ==
    /\ attached /\ ~Urgent(events)
    /\ paused
    /\ paused' = FALSE
    /\ \E position \in UserPositions : Listener("play", "user", FALSE, position, FALSE)
    /\ UNCHANGED events

UserPause ==
    /\ attached /\ ~Urgent(events)
    /\ ~paused
    /\ paused' = TRUE
    /\ \E position \in UserPositions : Listener("pause", "user", FALSE, position, TRUE)
    /\ UNCHANGED events

UserSeek ==
    /\ attached /\ ~Urgent(events)
    /\ events' = WithoutSeeked(events)
    /\ \E position \in UserPositions : Listener("seeked", "user", FALSE, position, paused)
    /\ UNCHANGED paused

\* One more step fits the bound on the length of a run; the server is not
\* part of this specification.
TickSync ==
    /\ calls < MaxSteps
    /\ calls' = calls + 1
    /\ UNCHANGED <<managerVars, nextSocket, wireVars, scenario, clientVars>>

NextSync ==
    \/ TickSync /\ attach /\ Programmatic
    \/ TickSync /\ activate /\ Programmatic
    \/ TickSync /\ deactivate /\ Programmatic
    \/ TickSync /\ (\E state \in RemoteStates : handleServerState(state)) /\ Programmatic
    \/ TickSync /\ HeartbeatFires /\ Programmatic
    \/ TickSync /\ TimerFires /\ Programmatic
    \/ TickSync /\ Waiting /\ Programmatic
    \/ TickSync /\ Playing /\ Programmatic
    \/ TickSync /\ CanPlay /\ Programmatic
    \/ TickSync /\ DispatchEvent
    \/ TickSync /\ UserPlay
    \/ TickSync /\ UserPause
    \/ TickSync /\ UserSeek

SpecSync == Init /\ [][NextSync]_vars

----------------------------------------------------------------------------
(* SpecClient: one browser extension against the server. The extension's
   socket is the first to connect; a second participant drives the server's
   handlers directly. What the extension's socket emits waits in up until the
   server handles it, and what the server delivers to it waits in down. *)

\* The extension's socket, and the other participant's
Client == 1
Other == 2

\* A poll that fires onAdStart on every tick that finds the indicator
CheckForAdsLevel(isInAd, adPlaying) ==
    IF adPlaying THEN "start"
    ELSE IF isInAd THEN "end"
    ELSE "none"

\* AdMonitor.checkForAds: the callback a poll tick fires
CheckForAds(isInAd, adPlaying) ==
    IF adPlaying /\ ~isInAd THEN "start"
    ELSE IF ~adPlaying /\ isInAd THEN "end"
    ELSE "none"

\* A wire event of the extension's socket
Wire(event, roomId) == [event |-> event, roomId |-> roomId]

\* The events the background script listens to with an effect on what is
\* modelled here (participant_joined and participant_left only count)
Listened == {"room_created", "room_joined", "error", "sync_state", "pause_for_ad", "resume_all"}

RECURSIVE SeqOf(_)
SeqOf(msgs) ==
    IF msgs = {} THEN << >>
    ELSE LET m == CHOOSE x \in msgs : TRUE IN << m >> \o SeqOf(msgs \ {m})

\* What a handler's emits delivered to the extension's socket
ToClient(msgs) == SeqOf({ m \in msgs : m.to = Client /\ m.event \in Listened })

\* A step of the extension that leaves the server alone
ServerIdle == UNCHANGED <<managerVars, nextSocket, wireVars>>

\* One more step fits the bound on the length of a run
TickClient ==
    /\ calls < MaxClientSteps
    /\ calls' = calls + 1
    /\ UNCHANGED <<scenario, syncVars>>

\* init() or its MutationObserver found the video element:
\* attachVideoListeners creates and starts the AdMonitor
AttachVideoListeners ==
    /\ ~content.video
    /\ \E p \in BOOLEAN : content' = [content EXCEPT !.video = TRUE, !.paused = p]
    /\ monitor' = NewMonitor
    /\ clientDid' = [NoClientDid EXCEPT !.step = "attach"]
    /\ ServerIdle
    /\ UNCHANGED <<requests, up, down>>

\* The AdMonitor's setInterval callback: checkForAds, whose callbacks send
\* AD_STARTED / AD_FINISHED to the background script, which emits them
PollTick ==
    /\ content.video
    /\ \E adPlaying \in BOOLEAN :
         LET fired == CheckForAds(monitor.isInAd, adPlaying) IN
         /\ monitor' = [ isInAd |-> IF fired = "start" THEN TRUE
                                    ELSE IF fired = "end" THEN FALSE
                                    ELSE monitor.isInAd,
                         last   |-> IF fired = "none" THEN monitor.last ELSE fired ]
         /\ up' = IF fired = "start" THEN Append(up, Wire("ad_started", NoRoom))
                  ELSE IF fired = "end" THEN Append(up, Wire("ad_finished", NoRoom))
                  ELSE up
         /\ clientDid' = [NoClientDid EXCEPT !.step = "tick", !.adPlaying = adPlaying,
                                             !.fired = fired]
    /\ ServerIdle
    /\ UNCHANGED <<content, requests, down>>

\* A request of the popup: no answer yet, its window of 5 s not over, its
\* once-listeners for the confirmation and for 'error' registered, its
\* timeout pending
Request(kind) ==
    [ kind |-> kind, response |-> "none", elapsed |-> FALSE, waiting |-> TRUE,
      onError |-> kind = "join", timer |-> kind = "join" ]

\* The background script's CREATE_ROOM case
RequestCreate ==
    /\ Len(requests) < MaxRequests
    /\ requests' = Append(requests, Request("create"))
    /\ up' = Append(up, Wire("create_room", NoRoom))
    /\ clientDid' = [NoClientDid EXCEPT !.step = "CREATE_ROOM"]
    /\ ServerIdle
    /\ UNCHANGED <<monitor, content, down>>

\* The background script's JOIN_ROOM case
RequestJoin ==
    /\ Len(requests) < MaxRequests
    /\ \E roomId \in RoomIds :
         up' = Append(up, Wire("join_room", roomId))
    /\ requests' = Append(requests, Request("join"))
    /\ clientDid' = [NoClientDid EXCEPT !.step = "JOIN_ROOM"]
    /\ ServerIdle
    /\ UNCHANGED <<monitor, content, down>>

\* Five seconds have passed since the oldest request whose window was open:
\* JOIN_ROOM's setTimeout callback answers with a failure; a sendResponse
\* after the first has no effect. CREATE_ROOM has set no timer.
WindowElapses ==
    /\ \E i \in 1..Len(requests) :
         /\ ~requests[i].elapsed
         /\ \A j \in 1..(i - 1) : requests[j].elapsed
         /\ requests' = [requests EXCEPT
                ![i].elapsed = TRUE,
                ![i].timer = FALSE,
                ![i].response = IF requests[i].timer /\ @ = "none" THEN "timeout" ELSE @]
    /\ clientDid' = [NoClientDid EXCEPT !.step = "window"]
    /\ ServerIdle
    /\ UNCHANGED <<monitor, content, up, down>>

\* The server handles the oldest wire event of the extension's socket
ServerHandles ==
    /\ up # << >>
    /\ Client \in connected
    /\ LET e == Head(up) IN
       CASE e.event = "create_room" -> OnCreateRoom(Client)
         [] e.event = "join_room"   -> OnJoinRoom(Client, e.roomId)
         [] e.event = "ad_started"  -> OnAdStarted(Client)
         [] e.event = "ad_finished" -> OnAdFinished(Client)
    /\ up' = Tail(up)
    /\ down' = down \o ToClient(sent')
    /\ clientDid' = NoClientDid
    /\ UNCHANGED <<monitor, content, requests>>

\* The server handles a wire event of the other participant
OtherActs ==
    /\ \/ OnCreateRoom(Other)
       \/ \E roomId \in RoomIds : OnJoinRoom(Other, roomId)
       \/ \E p \in BOOLEAN : OnPlaybackUpdate(Other, p, 120)
       \/ OnAdStarted(Other)
       \/ OnAdFinished(Other)
    /\ down' = down \o ToClient(sent')
    /\ clientDid' = NoClientDid
    /\ UNCHANGED <<monitor, content, requests, up>>

\* The background script's socket connects when the extension loads, the
\* other participant's after it
Connects ==
    /\ nextSocket \in {Client, Other}
    /\ OnConnection
    /\ clientDid' = NoClientDid
    /\ UNCHANGED <<calls, scenario, syncVars, monitor, content, requests, up, down>>

\* The once-listeners of the requests for event kind fire: each answers its
\* request, unless it was answered already
Confirmed(reqs, kind) ==
    [ i \in 1..Len(reqs) |->
        IF reqs[i].kind = kind /\ reqs[i].waiting
        THEN [reqs[i] EXCEPT !.waiting = FALSE,
                             !.response = IF @ = "none" THEN "ok" ELSE @]
        ELSE reqs[i] ]

\* The once('error') listeners fire
Refused(reqs) ==
    [ i \in 1..Len(reqs) |->
        IF reqs[i].onError
        THEN [reqs[i] EXCEPT !.onError = FALSE,
                             !.response = IF @ = "none" THEN "error" ELSE @]
        ELSE reqs[i] ]

\* The content script's setTimeout(() => isSyncing = false, 500) is set
GuardSet(c) == [c EXCEPT !.isSyncing = TRUE, !.resets = @ + 1]

\* handleSyncState(playback); far: the drift is more than 2 s
handleSyncState(isPlaying, far) ==
    IF ~content.video \/ content.isSyncing
    THEN /\ clientDid' = [NoClientDid EXCEPT !.step = "sync_state", !.playing = isPlaying]
         /\ UNCHANGED content
    ELSE LET playOps == IF isPlaying /\ content.paused THEN {"play"}
                        ELSE IF ~isPlaying /\ ~content.paused THEN {"pause"}
                        ELSE {}
         IN /\ content' = [GuardSet(content) EXCEPT !.paused = ~isPlaying]
            /\ clientDid' = [NoClientDid EXCEPT
                   !.step = "sync_state", !.playing = isPlaying,
                   !.ops = playOps \cup (IF far THEN {"seek"} ELSE {})]

\* handlePauseForAd(payload)
handlePauseForAd ==
    IF ~content.video
    THEN /\ clientDid' = [NoClientDid EXCEPT !.step = "pause_for_ad"]
         /\ UNCHANGED content
    ELSE /\ content' = [GuardSet(content) EXCEPT !.paused = TRUE, !.overlay = TRUE]
         /\ clientDid' = [NoClientDid EXCEPT !.step = "pause_for_ad", !.ops = {"pause"}]

\* handleResumeAll(payload)
handleResumeAll(isPlaying) ==
    IF ~content.video
    THEN /\ clientDid' = [NoClientDid EXCEPT !.step = "resume_all", !.playing = isPlaying]
         /\ UNCHANGED content
    ELSE /\ content' = [GuardSet(content) EXCEPT
                           !.paused = IF isPlaying THEN FALSE ELSE @,
                           !.overlay = FALSE]
         /\ clientDid' = [NoClientDid EXCEPT
                !.step = "resume_all", !.playing = isPlaying,
                !.ops = {"seek"} \cup (IF isPlaying THEN {"play"} ELSE {})]

\* The background script handles the oldest message delivered to its socket
\* and forwards it to the content script of the active tab. A room_joined for
\* a room with a content URL makes a waiting JOIN_ROOM request navigate the
\* tab: the page, its content script and its AdMonitor start anew.
ClientReceives ==
    /\ down # << >>
    /\ LET m == Head(down) IN
       CASE m.event = "room_created" ->
                /\ requests' = Confirmed(requests, "create")
                /\ clientDid' = [NoClientDid EXCEPT !.step = "room_created"]
                /\ UNCHANGED <<monitor, content>>
         [] m.event = "room_joined" ->
                /\ requests' = Confirmed(requests, "join")
                /\ clientDid' = [NoClientDid EXCEPT !.step = "room_joined"]
                /\ \E navigates \in BOOLEAN :
                     IF navigates /\ requests' # requests
                     THEN content' = NewContent /\ monitor' = NewMonitor
                     ELSE UNCHANGED <<monitor, content>>
         [] m.event = "error" ->
                /\ requests' = Refused(requests)
                /\ clientDid' = [NoClientDid EXCEPT !.step = "error"]
                /\ UNCHANGED <<monitor, content>>
         [] m.event = "sync_state" ->
                /\ \E far \in BOOLEAN : handleSyncState(m.isPlaying, far)
                /\ UNCHANGED <<monitor, requests>>
         [] m.event = "pause_for_ad" ->
                /\ handlePauseForAd
                /\ UNCHANGED <<monitor, requests>>
         [] m.event = "resume_all" ->
                /\ handleResumeAll(m.isPlaying)
                /\ UNCHANGED <<monitor, requests>>
    /\ down' = Tail(down)
    /\ ServerIdle
    /\ UNCHANGED up

\* A setTimeout callback of the content script's handlers: isSyncing = false
GuardTimerFires ==
    /\ content.resets > 0
    /\ content' = [content EXCEPT !.isSyncing = FALSE, !.resets = @ - 1]
    /\ clientDid' = [NoClientDid EXCEPT !.step = "guard"]
    /\ ServerIdle
    /\ UNCHANGED <<monitor, requests, up, down>>

NextClient ==
    \/ Connects
    \/ TickClient /\ AttachVideoListeners
    \/ TickClient /\ PollTick
    \/ TickClient /\ RequestCreate
    \/ TickClient /\ RequestJoin
    \/ TickClient /\ WindowElapses
    \/ TickClient /\ ServerHandles
    \/ TickClient /\ OtherActs
    \/ TickClient /\ ClientReceives
    \/ TickClient /\ GuardTimerFires

SpecClient == Init /\ [][NextClient]_vars

\* The extension and the other participant are together in room 1: the
\* extension's CREATE_ROOM request was confirmed, the other participant has
\* joined, and nothing is in flight. No video element was found yet.
Together ==
    /\ \E at \in 0..MaxClock :
         /\ now = at
         /\ rooms = (1 :> JoinedRoom(NewRoom(Client, at), Other))
    /\ socketToRoom = [ s \in Sockets |-> IF s \in {Client, Other} THEN 1 ELSE NoRoom ]
    /\ nextRoom = 2
    /\ ret = [NoRet EXCEPT !.op = "joinRoom", !.roomId = 1, !.socketId = Other,
                           !.isNull = FALSE]
    /\ nextSocket = 3
    /\ connected = {Client, Other}
    /\ joined = [ s \in Sockets |-> IF s \in {Client, Other} THEN {1} ELSE {} ]
    /\ handled = [event |-> "join_room", socket |-> Other, isPlaying |-> FALSE, timestamp |-> 0]
    /\ sent = ToSocket(connected, Other, Msg("room_joined", Other))
              \cup ToOthers(connected, joined, 1, Other, Msg("participant_joined", Other))
    /\ scenario = NoScenario
    /\ InitSync
    /\ monitor = NewMonitor
    /\ content = NewContent
    /\ requests = << [Request("create") EXCEPT !.waiting = FALSE, !.response = "ok"] >>
    /\ up = << >>
    /\ down = << >>
    /\ clientDid = NoClientDid

\* SpecTogether: the same steps, followed from the moment the extension and
\* the other participant are together in a room (a state SpecClient reaches
\* after the two connections and four more steps).
InitTogether == Together /\ calls = 0

TickTogether ==
    /\ calls < MaxTogetherSteps
    /\ calls' = calls + 1
    /\ UNCHANGED <<scenario, syncVars>>

\* Both sockets are connected already
NextTogether ==
    \/ TickTogether /\ AttachVideoListeners
    \/ TickTogether /\ PollTick
    \/ TickTogether /\ RequestCreate
    \/ TickTogether /\ RequestJoin
    \/ TickTogether /\ WindowElapses
    \/ TickTogether /\ ServerHandles
    \/ TickTogether /\ OtherActs
    \/ TickTogether /\ ClientReceives
    \/ TickTogether /\ GuardTimerFires

SpecTogether == InitTogether /\ [][NextTogether]_vars

----------------------------------------------------------------------------
(* Shorthands for the properties *)

Ads(rms, r) == rms[r].adState.usersInAd
Resume(rms, r) == << rms[r].adState.resumeTimestamp, rms[r].adState.resumeIsPlaying >>
Playback(rms, r) == << rms[r].playback.timestamp, rms[r].playback.isPlaying >>
Roster(rms, r) == Range(ParticipantIds(rms[r]))
Hosts(rms, r) == { i \in 1..Len(rms[r].participants) : rms[r].participants[i].isHost }

\* The step is a RoomManager call of method op that found its room
Called(op) == calls' # calls /\ ret'.op = op /\ ~ret'.isNull

\* The step is the handler of wire event ev, past its early return
Event(ev) ==
    /\ calls' # calls
    /\ handled'.event = ev
    /\ GetRoomBySocket(rooms, socketToRoom, handled'.socket) # NoRoom

EventRoom == GetRoomBySocket(rooms, socketToRoom, handled'.socket)

SentOf(msgs, event) == { m \in msgs : m.event = event }

----------------------------------------------------------------------------
(* RoomManager properties, checked under Spec *)

\* C1: while a room's ad mapping stays non-empty the resume snapshot does not
\* change, and the step that makes the mapping non-empty sets the snapshot to
\* the PlaybackState of that moment - whatever calls are interleaved.
C1_ResumeFrozenPerEpisode ==
    [][ \A r \in DOMAIN rooms \cap DOMAIN rooms' :
            Ads(rooms', r) # {} =>
                IF Ads(rooms, r) = {}
                THEN Resume(rooms', r) = Playback(rooms, r)
                ELSE Resume(rooms', r) = Resume(rooms, r) ]_vars

\* C1 witness: a second startAd joined a running episode after the playback
\* state had moved away from the snapshot.
C1_Witness ==
    /\ ret.op = "startAd" /\ ~ret.isNull /\ ~ret.isFirstAd
    /\ Cardinality(Ads(rooms, ret.roomId)) >= 2
    /\ Resume(rooms, ret.roomId) # Playback(rooms, ret.roomId)

\* C2: endAd on an existing room returns allClear exactly when the mapping is
\* empty after the call; for a caller who was in the mapping that is exactly
\* when the caller was the only one left in it, so of N entered participants
\* only the last to exit gets allClear = true.
C2_AllClearIffEmpty ==
    [][ Called("endAd") =>
            LET r == ret'.roomId
                p == ret'.socketId
            IN /\ ret'.allClear <=> (Ads(rooms', r) = {})
               /\ p \in Ads(rooms, r) => (ret'.allClear <=> (Ads(rooms, r) = {p})) ]_vars

\* C2 witness: an exit that is not the last one: the caller's entry is gone,
\* others remain and allClear is false.
C2_Witness ==
    /\ ret.op = "endAd" /\ ~ret.isNull /\ ~ret.allClear
    /\ ret.socketId \notin Ads(rooms, ret.roomId)
    /\ Cardinality(Ads(rooms, ret.roomId)) >= 1
    /\ ret.socketId \in Roster(rooms, ret.roomId)

\* C3: startAd's usersToPause is exactly the room's participants that are
\* neither the caller nor in the ad mapping, each listed once.
C3_UsersToPauseExact ==
    (ret.op = "startAd" /\ ~ret.isNull) =>
        LET r == ret.roomId IN
        /\ Range(ret.usersToPause) = Roster(rooms, r) \ (Ads(rooms, r) \cup {ret.socketId})
        /\ Len(ret.usersToPause) = Cardinality(Range(ret.usersToPause))
        /\ ret.socketId \notin Range(ret.usersToPause)
        /\ Range(ret.usersToPause) \cap Ads(rooms, r) = {}

\* C3 witness: a startAd in a room where another participant is already in an
\* ad and a third one is not.
C3_Witness ==
    /\ ret.op = "startAd" /\ ~ret.isNull
    /\ Len(ret.usersToPause) >= 1
    /\ \E p \in Roster(rooms, ret.roomId) : p # ret.socketId /\ p \in Ads(rooms, ret.roomId)

\* C8: every existing room has exactly one participant flagged isHost, and it
\* is the participant hostId names.
C8_ExactlyOneHost ==
    \A r \in DOMAIN rooms :
        /\ Cardinality(Hosts(rooms, r)) = 1
        /\ \A i \in Hosts(rooms, r) : rooms[r].participants[i].id = rooms[r].hostId

\* Lemma behind C9 and C10: hostId always names a participant of its room, and
\* only that participant can carry the host flag.
HostIdInRoster ==
    \A r \in DOMAIN rooms :
        /\ rooms[r].hostId \in Roster(rooms, r)
        /\ \A i \in Hosts(rooms, r) : rooms[r].participants[i].id = rooms[r].hostId

\* C9: a leaveRoom that removes the host while others remain keeps the room,
\* makes the first remaining participant (in iteration order) the host, flags
\* exactly that one as host and returns the room; a leaveRoom that removes the
\* last participant deletes the room and returns room: null.
C9_HostFailover ==
    [][ Called("leaveRoom") =>
            LET r == ret'.roomId
                s == ret'.socketId
                remaining == RemoveParticipant(rooms[r].participants, s)
            IN /\ (rooms[r].hostId = s /\ Len(remaining) > 0) =>
                    /\ r \in DOMAIN rooms'
                    /\ ~ret'.roomNull
                    /\ rooms'[r].hostId = remaining[1].id
                    /\ Hosts(rooms', r) = {1}
                    /\ ParticipantIds(rooms'[r]) =
                           [ i \in 1..Len(remaining) |-> remaining[i].id ]
               /\ (Len(remaining) = 0) <=> (r \notin DOMAIN rooms')
               /\ (Len(remaining) = 0) <=> ret'.roomNull ]_vars

\* C9 witness: the host left a room of three; the second to have joined is
\* now the host, the third is not.
C9_Witness ==
    /\ ret.op = "leaveRoom" /\ ~ret.isNull /\ ~ret.roomNull
    /\ ret.roomId \in DOMAIN rooms
    /\ Len(rooms[ret.roomId].participants) = 2
    /\ rooms[ret.roomId].hostId = rooms[ret.roomId].participants[1].id
    /\ ret.socketId = 1 /\ rooms[ret.roomId].hostId = 2

\* C9 on the wire (checked under SpecServer): the same for the leaveRoom that
\* the leave_room and disconnect handlers make.
C9_HostFailoverOnWire ==
    [][ (Event("leave_room") \/ Event("disconnect")) =>
            LET r == EventRoom
                s == handled'.socket
                remaining == RemoveParticipant(rooms[r].participants, s)
            IN /\ (rooms[r].hostId = s /\ Len(remaining) > 0) =>
                    /\ r \in DOMAIN rooms'
                    /\ rooms'[r].hostId = remaining[1].id
                    /\ Hosts(rooms', r) = {1}
               /\ (Len(remaining) = 0) <=> (r \notin DOMAIN rooms') ]_vars

\* C10: no existing room has an empty participant set.
C10_NoEmptyRoom ==
    \A r \in DOMAIN rooms : Len(rooms[r].participants) > 0

\* C10 witness: a leaveRoom removed the last participant and the room is gone.
C10_Witness ==
    /\ ret.op = "leaveRoom" /\ ~ret.isNull /\ ret.roomNull
    /\ ret.roomId \notin DOMAIN rooms

\* C11: endAd for somebody who is not in the ad mapping of an existing room
\* returns a result (not null), leaves the mapping and the resume snapshot as
\* they were, and reports allClear from the mapping as it is: true if it is
\* empty, false if others are in an ad.
C11_EndAdNotInAd ==
    [][ ( /\ calls' # calls
          /\ ret'.op = "endAd"
          /\ ret'.roomId \in DOMAIN rooms
          /\ ret'.socketId \notin Ads(rooms, ret'.roomId) ) =>
            LET r == ret'.roomId IN
            /\ ~ret'.isNull
            /\ r \in DOMAIN rooms'
            /\ rooms'[r].adState = rooms[r].adState
            /\ ret'.allClear <=> (Ads(rooms, r) = {})
            /\ << ret'.resumeTimestamp, ret'.resumeIsPlaying >> = Resume(rooms, r) ]_vars

\* C11 witness: the third call of a run is an endAd that found others in an
\* ad: the one startAd before it was somebody else's, so the caller, a
\* participant of the room, was not in the mapping.
C11_Witness ==
    /\ calls = 3
    /\ ret.op = "endAd" /\ ~ret.isNull /\ ~ret.allClear
    /\ ret.socketId \in Roster(rooms, ret.roomId)
    /\ Ads(rooms, ret.roomId) # {}

\* C12: a startAd for somebody who is already in the ad mapping leaves the ad
\* state as it was - that entry's startedAt, the mapping's membership, the
\* resume snapshot - and returns isFirstAd = false and usersToPause by the
\* usual rule.
C12_StartAdReentryIdempotent ==
    [][ (Called("startAd") /\ ret'.socketId \in Ads(rooms, ret'.roomId)) =>
            LET r == ret'.roomId IN
            /\ rooms'[r].adState.startedAt[ret'.socketId] =
                   rooms[r].adState.startedAt[ret'.socketId]
            /\ rooms'[r].adState = rooms[r].adState
            /\ ~ret'.isFirstAd
            /\ Range(ret'.usersToPause) =
                   Roster(rooms, r) \ (Ads(rooms, r) \cup {ret'.socketId}) ]_vars

\* What does hold of such a call: everything but the caller's startedAt.
C12_ReentryKeepsAllButStartedAt ==
    [][ (Called("startAd") /\ ret'.socketId \in Ads(rooms, ret'.roomId)) =>
            LET r == ret'.roomId IN
            /\ Ads(rooms', r) = Ads(rooms, r)
            /\ Resume(rooms', r) = Resume(rooms, r)
            /\ \A s \in Ads(rooms, r) \ {ret'.socketId} :
                   rooms'[r].adState.startedAt[s] = rooms[r].adState.startedAt[s]
            /\ rooms'[r].adState.startedAt[ret'.socketId] = now'
            /\ ~ret'.isFirstAd
            /\ Range(ret'.usersToPause) =
                   Roster(rooms, r) \ (Ads(rooms, r) \cup {ret'.socketId}) ]_vars

\* C15: joinRoom, updatePlayback, startAd and endAd called with a room id
\* that names no room return null and change no room and no entry of the
\* connection index; for such an id isEveryoneClearOfAds is true and
\* getAdUsers is empty. A call applies in full or not at all: one that
\* returns null changed nothing, and a startAd that returns a result has
\* added the caller with its startedAt and, on the first entry, written the
\* whole resume snapshot.
C15_UnknownRoomRejected ==
    [][ calls' # calls =>
          /\ ( /\ ret'.op \in {"joinRoom", "updatePlayback", "startAd", "endAd"}
               /\ ret'.roomId \notin DOMAIN rooms ) =>
                   /\ ret'.isNull
                   /\ rooms' = rooms
                   /\ socketToRoom' = socketToRoom
          /\ ret'.isNull => (rooms' = rooms /\ socketToRoom' = socketToRoom)
          /\ \A r \in RoomIds \ DOMAIN rooms' :
                 /\ IsEveryoneClearOfAds(rooms', r)
                 /\ GetAdUsers(rooms', r) = {}
          /\ \A r \in DOMAIN rooms' :
                 /\ IsEveryoneClearOfAds(rooms', r) <=> (Ads(rooms', r) = {})
                 /\ DOMAIN rooms'[r].adState.startedAt = Ads(rooms', r)
          /\ Called("startAd") =>
                 /\ ret'.socketId \in Ads(rooms', ret'.roomId)
                 /\ ret'.isFirstAd =>
                        Resume(rooms', ret'.roomId) = Playback(rooms, ret'.roomId) ]_vars

\* C15 witness: a startAd named a room id that does not exist while another
\* room has an ad episode running, with a resume snapshot that is not the
\* current playback state.
C15_Witness ==
    /\ ret.op = "startAd" /\ ret.isNull
    /\ ret.roomId \notin DOMAIN rooms
    /\ \E r \in DOMAIN rooms :
           /\ Ads(rooms, r) # {}
           /\ Resume(rooms, r) # Playback(rooms, r)

----------------------------------------------------------------------------
(* The ad scenario, checked under SpecScenario *)

\* C13: with Host, A and B in a room and nobody in an ad, A enters an ad,
\* then B, and Host never does: only Host is told to pause at A's entry; B's
\* entry tells nobody to pause who was not told at A's entry; A's exit returns
\* allClear = false; B's exit returns allClear = true and the position
\* captured at A's entry.
C13_SimultaneousAds ==
    /\ (scenario.step = 1 /\ ret.op = "startAd") =>
            ret.usersToPause = << Host >>
    /\ (scenario.step = 2 /\ ret.op = "startAd") =>
            Range(ret.usersToPause) \subseteq Range(scenario.told)
    /\ (scenario.step = 3 /\ ret.op = "endAd") => ~ret.allClear
    /\ (scenario.step = 4 /\ ret.op = "endAd") =>
            /\ ret.allClear
            /\ << ret.resumeTimestamp, ret.resumeIsPlaying >> = scenario.captured

\* C13 as the code has it: A's entry tells Host and B to pause, B not being
\* in an ad yet; B's entry lists Host alone.
C13_SimultaneousAdsBothPaused ==
    /\ (scenario.step = 1 /\ ret.op = "startAd") =>
            ret.usersToPause = << Host, UserB >>
    /\ (scenario.step = 2 /\ ret.op = "startAd") =>
            /\ ret.usersToPause = << Host >>
            /\ Range(ret.usersToPause) \subseteq Range(scenario.told)
    /\ (scenario.step = 3 /\ ret.op = "endAd") => ~ret.allClear
    /\ (scenario.step = 4 /\ ret.op = "endAd") =>
            /\ ret.allClear
            /\ << ret.resumeTimestamp, ret.resumeIsPlaying >> = scenario.captured

\* C13 witness: the scenario ran to B's exit, and the playback state had
\* moved away from the position captured at A's entry.
C13_Witness ==
    /\ scenario.step = 4
    /\ ret.op = "endAd" /\ ret.allClear
    /\ scenario.told = << Host, UserB >>
    /\ scenario.captured # Playback(rooms, 1)

----------------------------------------------------------------------------
(* Socket handler properties, checked under SpecServer *)

ResumeAllMsg(to, from, resume) ==
    [ Msg("resume_all", from) EXCEPT !.to = to, !.timestamp = resume[1],
                                     !.isPlaying = resume[2] ]

\* C4: the ad_finished that empties a room's ad mapping delivers resume_all,
\* carrying the episode's frozen resume snapshot, to every participant of the
\* room, the caller included.
C4_ResumeAllToEveryParticipant ==
    [][ (Event("ad_finished") /\ Ads(rooms, EventRoom) # {} /\ Ads(rooms', EventRoom) = {}) =>
            \A p \in Roster(rooms', EventRoom) :
                ResumeAllMsg(p, handled'.socket, Resume(rooms, EventRoom)) \in sent' ]_vars

\* The same for the participants whose connection is open.
C4_ResumeAllToOpenParticipants ==
    [][ (Event("ad_finished") /\ Ads(rooms, EventRoom) # {} /\ Ads(rooms', EventRoom) = {}) =>
            /\ handled'.socket \in Roster(rooms', EventRoom) \cap connected'
            /\ \A p \in Roster(rooms', EventRoom) \cap connected' :
                   ResumeAllMsg(p, handled'.socket, Resume(rooms, EventRoom)) \in sent' ]_vars

\* C5: on ad_started every other participant of the room who is not in the ad
\* mapping is delivered a pause_for_ad listing the mapping (the caller
\* included), and the caller is delivered none.
C5_PauseForAdToOthers ==
    [][ Event("ad_started") =>
            LET s == handled'.socket
                pauses == SentOf(sent', "pause_for_ad")
            IN /\ \A p \in Roster(rooms', EventRoom) \ (Ads(rooms', EventRoom) \cup {s}) :
                      \E m \in pauses : m.to = p
               /\ \A m \in pauses : m.to # s /\ m.usersInAd = Ads(rooms', EventRoom)
               /\ s \in Ads(rooms', EventRoom) ]_vars

\* The same for the participants whose connection is open.
C5_PauseForAdToOpenOthers ==
    [][ Event("ad_started") =>
            LET s == handled'.socket
                pauses == SentOf(sent', "pause_for_ad")
            IN /\ \A p \in (Roster(rooms', EventRoom) \cap connected')
                              \ (Ads(rooms', EventRoom) \cup {s}) :
                      \E m \in pauses : m.to = p
               /\ \A m \in pauses : m.to # s /\ m.usersInAd = Ads(rooms', EventRoom)
               /\ s \in Ads(rooms', EventRoom) ]_vars

\* C6: resume_all is delivered by the ad_finished that takes a room's ad
\* mapping from non-empty to empty, and by no other event: not by an
\* ad_finished that finds the mapping already empty.
C6_ResumeAllOnlyAtEpisodeEnd ==
    [][ calls' # calls =>
            ( SentOf(sent', "resume_all") # {}
              <=> /\ Event("ad_finished")
                  /\ Ads(rooms, EventRoom) # {}
                  /\ Ads(rooms', EventRoom) = {} ) ]_vars

\* C7: an ad_finished that leaves the ad mapping non-empty delivers one
\* pause_for_ad, to the caller, listing the remaining mapping with the frozen
\* resume timestamp, and no resume_all to anybody.
C7_StillBlockedCallerPaused ==
    [][ (Event("ad_finished") /\ Ads(rooms', EventRoom) # {}) =>
            LET s == handled'.socket IN
            /\ SentOf(sent', "pause_for_ad") =
                   { [ Msg("pause_for_ad", s) EXCEPT
                         !.to = s,
                         !.usersInAd = Ads(rooms', EventRoom),
                         !.timestamp = rooms[EventRoom].adState.resumeTimestamp ] }
            /\ SentOf(sent', "resume_all") = {} ]_vars

\* C14: a playback_update handled for a room overwrites the room's
\* PlaybackState with the payload's isPlaying and timestamp, whatever was
\* there and whoever wrote it, and stamps it with the server's clock reading
\* of that write; nothing else changes a room's PlaybackState. So after any
\* interleaving the state is that of the update that arrived last.
C14_LastWriteWins ==
    [][ /\ Event("playback_update") =>
              /\ EventRoom \in DOMAIN rooms'
              /\ rooms'[EventRoom].playback =
                     [ isPlaying |-> handled'.isPlaying,
                       timestamp |-> handled'.timestamp,
                       updatedAt |-> now' ]
              /\ now' >= now
        /\ \A r \in DOMAIN rooms \cap DOMAIN rooms' :
              rooms'[r].playback # rooms[r].playback =>
                  Event("playback_update") /\ r = EventRoom ]_vars

\* C14 witness: an update from one participant put the position at 120 (the
\* resume snapshot of the running ad episode kept it); a later update from
\* another participant, with a lower position and at a later clock value,
\* is what the room holds now.
C14_Witness ==
    /\ handled.event = "playback_update"
    /\ LET r == socketToRoom[handled.socket] IN
       /\ r \in DOMAIN rooms
       /\ Ads(rooms, r) # {} /\ handled.socket \notin Ads(rooms, r)
       /\ rooms[r].adState.resumeTimestamp = 120
       /\ rooms[r].playback = [isPlaying |-> FALSE, timestamp |-> 0, updatedAt |-> 1]
       /\ \E s \in Ads(rooms, r) : rooms[r].adState.startedAt[s] = 0

\* C16: a playback_update from a participant of a room writes the room's
\* PlaybackState and delivers sync_state, carrying exactly the written
\* snapshot, to every other participant of the room and not to the sender;
\* a playback_update from a connection that is in no room changes no state
\* and sends nothing.
C16_SyncStateToOthers ==
    [][ (calls' # calls /\ handled'.event = "playback_update") =>
            LET s == handled'.socket
                r == EventRoom
            IN IF r = NoRoom
               THEN /\ sent' = {}
                    /\ UNCHANGED <<rooms, socketToRoom, joined>>
               ELSE /\ rooms'[r].playback.isPlaying = handled'.isPlaying
                    /\ rooms'[r].playback.timestamp = handled'.timestamp
                    /\ sent' = { [SyncStateMsg(rooms'[r].playback, s) EXCEPT !.to = p] :
                                    p \in Roster(rooms', r) \ {s} } ]_vars

\* The same for the participants whose connection is open.
C16_SyncStateToOpenOthers ==
    [][ (calls' # calls /\ handled'.event = "playback_update") =>
            LET s == handled'.socket
                r == EventRoom
            IN IF r = NoRoom
               THEN /\ sent' = {}
                    /\ UNCHANGED <<rooms, socketToRoom, joined>>
               ELSE /\ rooms'[r].playback.isPlaying = handled'.isPlaying
                    /\ rooms'[r].playback.timestamp = handled'.timestamp
                    /\ sent' = { [SyncStateMsg(rooms'[r].playback, s) EXCEPT !.to = p] :
                                    p \in (Roster(rooms', r) \cap connected') \ {s} } ]_vars

\* C7 witness: a participant who was in an ad finished it while another
\* participant of the room is still in one, after the playback moved on.
C7_Witness ==
    /\ handled.event = "ad_finished"
    /\ \E m \in SentOf(sent, "pause_for_ad") :
           /\ m.to = handled.socket
           /\ m.usersInAd # {}
           /\ m.usersInAd \subseteq Roster(rooms, socketToRoom[handled.socket])
           /\ m.timestamp # rooms[socketToRoom[handled.socket]].playback.timestamp

----------------------------------------------------------------------------
(* SyncManager properties, checked under SpecSync *)

\* C17: performSync takes as the expected position the remote timestamp plus
\* the time since the remote state's server time if the remote state is
\* playing, else the remote timestamp, and goes by |local - expected|: up to
\* 0.5 s no seek, normal rate, status synced; above 0.5 s and up to 2 s a rate
\* adjustment, no seek, status adjusting; above 2 s a seek to the expected
\* position, normal rate, status seeking. Remote {playing, 100 s} sent at T
\* and local 103 s read at T + 1 s (drift 2 s) is a rate adjustment.
C17_DriftBands ==
    did.ran =>
        LET st == did.state
            expected == IF st.isPlaying
                        THEN st.timestamp + (did.clock - st.serverTime)
                        ELSE st.timestamp
            d == IF did.local >= expected THEN did.local - expected
                 ELSE expected - did.local
        IN /\ d <= 500 =>
                  /\ "seek" \notin did.ops
                  /\ playbackRate = 100
                  /\ status = "synced"
           /\ (d > 500 /\ d <= 2000) =>
                  /\ "seek" \notin did.ops
                  /\ playbackRate \in {95, 105}
                  /\ status = "adjusting"
           /\ d > 2000 =>
                  /\ "seek" \in did.ops
                  /\ did.seekTo = expected
                  /\ playbackRate = 100
                  /\ status = "seeking"
           /\ (st.isPlaying /\ st.timestamp = 100000 /\ did.local = 103000
                  /\ did.clock = st.serverTime + 1000) =>
                  /\ status = "adjusting"
                  /\ "seek" \notin did.ops

\* C17 witness: the example: remote {playing, 100 s} sent at T, local 103 s
\* read at T + 1 s; the player is slowed down and not sought.
C17_Witness ==
    /\ did.ran
    /\ did.state.isPlaying /\ did.state.timestamp = 100000 /\ did.state.serverTime = 1000
    /\ did.local = 103000 /\ did.clock = 2000
    /\ status = "adjusting" /\ playbackRate = RATE_SLOWDOWN

\* C18: deactivate() returns with the playback rate normal, and from then
\* until the next activate() the rate stays normal and the loop makes no
\* seek, rate change, play() or pause(): no rate-adjustment timer or heartbeat
\* is left that acts on the player.
C18_DeactivateCancels ==
    [][ calls' # calls =>
          /\ did'.trigger = "deactivate" =>
                 /\ playbackRate' = RATE_NORMAL
                 /\ ~heartbeatInterval'
          /\ (~isActive /\ ~isActive') =>
                 /\ did'.ops = {}
                 /\ playbackRate' = RATE_NORMAL ]_vars

\* What deactivate() does do: it stops the heartbeat and puts the rate back to
\* normal, and the heartbeat does not act until the next activate().
C18_DeactivateStopsHeartbeat ==
    [][ calls' # calls =>
          /\ did'.trigger = "deactivate" =>
                 /\ playbackRate' = RATE_NORMAL
                 /\ ~heartbeatInterval'
          /\ (~isActive /\ ~isActive') => did'.trigger # "heartbeat" ]_vars

\* C19: while isBuffering is set no trigger of the loop - a pushed remote
\* state, the heartbeat, the rate-adjustment timer, the timer of the re-sync
\* after buffering - makes a seek, a rate change, a play() or a pause().
C19_NoActionWhileBuffering ==
    [][ ( /\ calls' # calls
          /\ isBuffering
          /\ did'.trigger \in {"serverState", "heartbeat", "rate", "resync"} ) =>
            did'.ops = {} ]_vars

\* The same for the two triggers that test the flag.
C19_GuardedTriggersSuppressed ==
    [][ ( /\ calls' # calls
          /\ isBuffering
          /\ did'.trigger \in {"serverState", "heartbeat"} ) =>
            (did'.ops = {} /\ ~did'.ran) ]_vars

\* C20: the 'playing' event that ends buffering schedules a reconciliation,
\* and that reconciliation runs performSync on the most recent state pushed
\* to the (attached, active) SyncManager, states pushed during buffering
\* included.
C20_ResyncUsesLatestState ==
    [][ calls' # calls =>
          /\ (did'.trigger = "playing" /\ isBuffering /\ ~lastPushed.isNull) =>
                 \E i \in 1..Len(timers') : timers'[i].kind = "resync"
          /\ did'.trigger = "resync" =>
                 /\ did'.ran
                 /\ did'.state = lastPushed ]_vars

\* What the re-sync does use: the state the SyncManager last stored.
C20_ResyncUsesStoredState ==
    [][ calls' # calls =>
          /\ (did'.trigger = "playing" /\ isBuffering /\ ~serverState.isNull) =>
                 \E i \in 1..Len(timers') : timers'[i].kind = "resync"
          /\ did'.trigger = "resync" =>
                 /\ did'.ran
                 /\ did'.state = serverState ]_vars

----------------------------------------------------------------------------
(* Rooms against each other, checked under Spec *)

\* C26: a createRoom, joinRoom, leaveRoom, updatePlayback, startAd or endAd
\* leaves every room other than the one it targets in place and unchanged:
\* its participants, hostId, playback state and ad state. The room targeted
\* is the one the call names, the new one for createRoom, and the caller's
\* room for leaveRoom.
C26_RoomsIndependent ==
    [][ calls' # calls =>
            \A r \in DOMAIN rooms :
                r # ret'.roomId => r \in DOMAIN rooms' /\ rooms'[r] = rooms[r] ]_vars

\* C26 witness: a socket listed in two rooms left the one it is mapped to, and
\* is still in the roster of the other.
C26_Witness ==
    /\ ret.op = "leaveRoom" /\ ~ret.isNull
    /\ \E r \in DOMAIN rooms : r # ret.roomId /\ ret.socketId \in Roster(rooms, r)

----------------------------------------------------------------------------
(* Leaving during an ad, checked under SpecServer *)

\* C27: in every reachable state a room's ad mapping holds only current
\* participants of that room; one who left or disconnected during an ad is
\* no longer in it.
C27_AdMappingOnlyParticipants ==
    \A r \in DOMAIN rooms : Ads(rooms, r) \subseteq Roster(rooms, r)

\* Who enters the mapping is a participant: ad_started puts its own sender
\* in, and the sender is in the room's roster.
C27_AdStartedByParticipant ==
    [][ Event("ad_started") =>
            /\ Ads(rooms', EventRoom) = Ads(rooms, EventRoom) \cup {handled'.socket}
            /\ handled'.socket \in Roster(rooms', EventRoom) ]_vars

\* Socket x can still report ad_finished for room r: its connection is open
\* and getRoomBySocket(x) is r.
CanFinish(x, r) == x \in connected /\ GetRoomBySocket(rooms, socketToRoom, x) = r

\* C28: an ad episode can always be brought to its resume_all by the
\* ad_finished of those the room waits for: everybody in a room's ad mapping
\* can still report ad_finished for that room, also after a participant who
\* was in an ad left or disconnected. (Once nobody in the mapping can, every
\* connected participant in it has reported and resume_all is still due.)
C28_AdEpisodeCanEnd ==
    \A r \in DOMAIN rooms : \A x \in Ads(rooms, r) : CanFinish(x, r)

\* Why that is the end of the episode: an entry of somebody who can no longer
\* report stays in the mapping for as long as the room exists, and no event
\* of that room delivers resume_all.
C28_StuckEpisodeNeverResumes ==
    [][ \A r \in DOMAIN rooms : \A x \in Ads(rooms, r) :
            ~CanFinish(x, r) /\ x \notin connected =>
                /\ r \in DOMAIN rooms' => x \in Ads(rooms', r)
                /\ (Event("ad_finished") /\ EventRoom = r) => SentOf(sent', "resume_all") = {} ]_vars

----------------------------------------------------------------------------
(* SyncManager's re-entrancy guard, checked under SpecSync *)

\* C22: performSync never starts while isSyncing, the guard of the correction
\* before it, is still set, whichever trigger runs it: a pushed remote state,
\* the heartbeat, the rate-adjustment timer or the re-sync timer after
\* buffering.
C22_OneCorrectionAtATime ==
    [][ (calls' # calls /\ did'.ran) => ~isSyncing ]_vars

\* The two triggers that test the guard do keep to it.
C22_GuardedTriggersWait ==
    [][ (calls' # calls /\ did'.ran /\ did'.trigger \in {"serverState", "heartbeat"})
            => ~isSyncing ]_vars

\* A 'play', 'pause' or 'seeked' event reached its listener in this step
Dispatched == calls' # calls /\ emitted'.event # "none"

\* C21: a 'play', 'pause' or 'seeked' event caused by a correction and
\* dispatched while that correction is in flight (the delay of its guard has
\* not run out) is not sent upstream as a playback update.
C21_CorrectionEventsNotEmitted ==
    [][ (Dispatched /\ emitted'.origin = "correction" /\ emitted'.inFlight)
            => ~emitted'.sent ]_vars

\* While isSyncing is set, no event is sent upstream.
C21_NothingSentWhileGuardSet ==
    [][ (Dispatched /\ isSyncing) =>
            ~emitted'.sent /\ lastEmittedState' = lastEmittedState ]_vars

\* C23: a 'play', 'pause' or 'seeked' event is sent upstream only when the
\* SyncManager is active, isSyncing is clear, and the playing flag differs
\* from the last one sent or the position is more than 0.5 s away from the
\* last one sent; an event that is not sent leaves lastEmittedState as it is.
C23_EmitDebounced ==
    [][ Dispatched =>
            /\ emitted'.sent =>
                   /\ isActive /\ ~isSyncing
                   /\ \/ emitted'.isPlaying # lastEmittedState.isPlaying
                      \/ Abs(emitted'.timestamp - lastEmittedState.timestamp) > 500
            /\ ~emitted'.sent => lastEmittedState' = lastEmittedState ]_vars

\* What the code does: it sends exactly when active, unguarded, and the flag
\* differs or the position is at least 0.5 s away; what is sent becomes
\* lastEmittedState.
C23_EmitDebouncedAtLeast ==
    [][ Dispatched =>
            /\ emitted'.sent <=>
                   /\ isActive /\ ~isSyncing
                   /\ \/ emitted'.isPlaying # lastEmittedState.isPlaying
                      \/ Abs(emitted'.timestamp - lastEmittedState.timestamp) >= 500
            /\ emitted'.sent =>
                   lastEmittedState' = [ isPlaying |-> emitted'.isPlaying,
                                         timestamp |-> emitted'.timestamp ]
            /\ ~emitted'.sent => lastEmittedState' = lastEmittedState ]_vars

----------------------------------------------------------------------------
(* The extension, checked under SpecClient and SpecTogether *)

\* getRoomBySocket of the extension's socket
ClientRoom == GetRoomBySocket(rooms, socketToRoom, Client)

\* C24: on a poll tick onAdStart fires exactly when the ad indicator is
\* present and isInAd was false, and onAdEnd exactly when the indicator is
\* absent and isInAd was true; a tick whose indicator is what isInAd already
\* says (as after a tick with the same indicator) fires nothing; the
\* callbacks alternate, onAdStart first; and isInAd is true exactly when the
\* last callback fired was onAdStart.
C24_EdgeTriggeredCallbacks ==
    [][ /\ (calls' # calls /\ clientDid'.step = "tick") =>
              LET adPlaying == clientDid'.adPlaying
                  fired == clientDid'.fired
              IN /\ (fired = "start") <=> (adPlaying /\ ~monitor.isInAd)
                 /\ (fired = "end") <=> (~adPlaying /\ monitor.isInAd)
                 /\ (adPlaying = monitor.isInAd) => fired = "none"
                 /\ fired = "start" => monitor.last \in {"none", "end"}
                 /\ fired = "end" => monitor.last = "start"
                 /\ fired = "none" => monitor' = monitor
        /\ monitor'.isInAd <=> (monitor'.last = "start") ]_vars

\* C24 witness: after an onAdStart and an onAdEnd, a tick without the
\* indicator fired nothing.
C24_Witness ==
    /\ clientDid.step = "tick" /\ ~clientDid.adPlaying /\ clientDid.fired = "none"
    /\ monitor.last = "end" /\ ~monitor.isInAd

\* C25: a create or join request whose window of 5 s is over has been
\* answered: by the confirmation, by the server's error, or by the failure
\* the timeout surfaces.
C25_RequestAnswered ==
    \A i \in 1..Len(requests) : requests[i].elapsed => requests[i].response # "none"

\* For join requests that is so, and a window that runs out emits nothing: no
\* request is sent again.
C25_JoinAnsweredNoRetry ==
    [][ /\ \A i \in 1..Len(requests') :
              (requests'[i].kind = "join" /\ requests'[i].elapsed)
                  => requests'[i].response # "none"
        /\ (calls' # calls /\ clientDid'.step = "window") => up' = up ]_vars

\* C30: when nothing is in flight and the extension's socket is in a room,
\* the room's ad mapping holds that socket exactly when the AdMonitor's
\* isInAd is true.
C30_AdMappingMatchesMonitor ==
    (up = << >> /\ down = << >> /\ ClientRoom # NoRoom) =>
        ((Client \in Ads(rooms, ClientRoom)) <=> monitor.isInAd)

\* An ad that starts and ends while the extension is in the room, with no
\* other room involved, is tracked: the ad_started and ad_finished the
\* monitor's callbacks emit put the socket into the mapping and take it out.
C30_AdEventsTracked ==
    [][ (calls' # calls /\ handled'.socket = Client /\ ClientRoom # NoRoom) =>
            /\ handled'.event = "ad_started" => Client \in Ads(rooms', ClientRoom)
            /\ handled'.event = "ad_finished" =>
                   (ClientRoom \in DOMAIN rooms' => Client \notin Ads(rooms', ClientRoom)) ]_vars

\* C29: a participant whom pause_for_ad has paused (the waiting overlay is
\* up: no resume_all since) is not made to play by a sync_state while the
\* room's ad mapping is non-empty.
C29_PausedForAdStaysPaused ==
    [][ ( /\ calls' # calls
          /\ clientDid'.step = "sync_state" /\ clientDid'.playing
          /\ content.overlay
          /\ ClientRoom # NoRoom /\ Ads(rooms, ClientRoom) # {} )
            => "play" \notin clientDid'.ops ]_vars

\* Within the 500 ms after pause_for_ad was handled the content script's
\* isSyncing guard does drop a sync_state.
C29_GuardDropsSyncState ==
    [][ (calls' # calls /\ clientDid'.step = "sync_state" /\ content.isSyncing)
            => clientDid'.ops = {} /\ content' = content ]_vars

----------------------------------------------------------------------------
(* Episodes and the socket index, checked under Spec *)

\* C34: a startAd on an existing room returns isFirstAd = true exactly when
\* the ad mapping was empty before the call; on those calls the resume
\* snapshot becomes the PlaybackState of that moment, and on the others it
\* stays what it was. So whenever an episode starts, the first or a later
\* one, by whichever participant, the snapshot is taken anew.
C34_FirstAdSnapshots ==
    [][ Called("startAd") =>
            LET r == ret'.roomId IN
            /\ ret'.isFirstAd <=> (Ads(rooms, r) = {})
            /\ ret'.isFirstAd => Resume(rooms', r) = Playback(rooms, r)
            /\ ~ret'.isFirstAd => Resume(rooms', r) = Resume(rooms, r) ]_vars

\* C34 witness: an episode started after the playback state had moved, and
\* its snapshot is that state.
C34_Witness ==
    /\ ret.op = "startAd" /\ ~ret.isNull /\ ret.isFirstAd
    /\ Ads(rooms, ret.roomId) = {ret.socketId}
    /\ Playback(rooms, ret.roomId) = << 120, TRUE >>
    /\ Resume(rooms, ret.roomId) = << 120, TRUE >>

\* The rooms whose participant set holds socket s
RoomsOf(rms, s) == { r \in DOMAIN rms : s \in Roster(rms, r) }

\* C36: a socket id is in the participant set of at most one room.
C36_InAtMostOneRoom ==
    \A s \in Sockets : Cardinality(RoomsOf(rooms, s)) <= 1

\* leaveRoom takes the socket out of the one room the index names for it
C36_LeaveRemovesFromIndexedRoom ==
    [][ Called("leaveRoom") =>
            /\ ret'.roomId = socketToRoom[ret'.socketId]
            /\ ret'.roomId \in DOMAIN rooms' => ret'.socketId \notin Roster(rooms', ret'.roomId)
            /\ \A r \in DOMAIN rooms' \ {ret'.roomId} :
                   Roster(rooms', r) = Roster(rooms, r) ]_vars

\* C39: every entry of socketToRoom names a room that exists and whose
\* participant set holds that socket.
C39_IndexNamesRoomOfSocket ==
    \A s \in Sockets :
        socketToRoom[s] # NoRoom =>
            /\ socketToRoom[s] \in DOMAIN rooms
            /\ s \in Roster(rooms, socketToRoom[s])

\* C39 witness: a leaveRoom deleted a room while another room, with its index
\* entries, stays.
C39_Witness ==
    /\ ret.op = "leaveRoom" /\ ~ret.isNull /\ ret.roomNull
    /\ ret.roomId \notin DOMAIN rooms
    /\ \E s \in Sockets : socketToRoom[s] # NoRoom

----------------------------------------------------------------------------
(* Joining during an ad, checked under SpecServer *)

\* C35: a socket that joins a room it was not in, while the room's ad mapping
\* is non-empty and does not hold it, is sent pause_for_ad: from then on it is
\* a participant outside the mapping, and an episode under way pauses those.
C35_JoinerPausedForAd ==
    [][ ( /\ calls' # calls
          /\ handled'.event = "join_room"
          /\ ~ret'.isNull
          /\ handled'.socket \notin Roster(rooms, ret'.roomId)
          /\ Ads(rooms', ret'.roomId) # {}
          /\ handled'.socket \notin Ads(rooms', ret'.roomId) )
            => \E m \in SentOf(sent', "pause_for_ad") : m.to = handled'.socket ]_vars

\* The joiner is sent room_joined with the playback state, and nothing else
C35_JoinerGetsRoomJoined ==
    [][ (calls' # calls /\ handled'.event = "join_room" /\ ~ret'.isNull)
            => \A m \in sent' :
                   m.to = handled'.socket =>
                       /\ m.event = "room_joined"
                       /\ << m.timestamp, m.isPlaying >> = Playback(rooms', ret'.roomId) ]_vars

----------------------------------------------------------------------------
(* The content script's handlers, checked under SpecTogether *)

\* C31: after handleResumeAll has applied a resume_all to the video, the
\* player was sought to the timestamp and is playing exactly if isPlaying
\* says so, whatever it was doing before.
C31_ResumeAllSetsPlayer ==
    [][ (calls' # calls /\ clientDid'.step = "resume_all" /\ content.video) =>
            /\ "seek" \in clientDid'.ops
            /\ content'.paused = ~clientDid'.playing ]_vars

\* What handleResumeAll does do: it seeks, and it starts a paused player
\* when isPlaying is true; a player that was paused stays paused when
\* isPlaying is false.
C31_ResumeAllSeeksAndPlays ==
    [][ (calls' # calls /\ clientDid'.step = "resume_all" /\ content.video) =>
            /\ "seek" \in clientDid'.ops
            /\ clientDid'.playing => ~content'.paused
            /\ (~clientDid'.playing /\ content.paused) => content'.paused
            /\ ~content'.overlay ]_vars

\* C37: while a release timer set by one of the three handlers is pending,
\* the isSyncing guard is set: the timers all run 500 ms, so the pending ones
\* are those of the latest handlers, whose windows are still open.
C37_GuardHeldUntilOwnRelease ==
    content.resets > 0 => content.isSyncing

\* A release that is the only one pending leaves no window open, and every
\* handler that touches the video leaves the guard set
C37_HandlersSetGuard ==
    [][ /\ (calls' # calls /\ clientDid'.step \in {"sync_state", "pause_for_ad", "resume_all"}
                 /\ content' # content)
              => content'.isSyncing /\ content'.resets = content.resets + 1
        /\ (calls' # calls /\ clientDid'.step = "guard" /\ content.resets = 1)
              => ~content'.isSyncing /\ content'.resets = 0 ]_vars

----------------------------------------------------------------------------
(* SyncManager's stored state, rate correction and reports, checked under
   SpecSync *)

\* C32: a reconciliation run by the heartbeat, by the rate-adjustment timer
\* or by the re-sync timer uses the state most recently pushed to the
\* (attached, active) SyncManager, whenever that push arrived.
C32_ReconcilesLatestPush ==
    [][ (calls' # calls /\ did'.ran /\ did'.trigger \in {"heartbeat", "rate", "resync"})
            => did'.state = lastPushed ]_vars

\* What they use is the stored state, and a push that arrives with the guard
\* clear is stored.
C32_ReconcilesStoredState ==
    [][ calls' # calls =>
          /\ (did'.ran /\ did'.trigger \in {"heartbeat", "rate", "resync"})
                 => did'.state = serverState
          /\ (did'.trigger = "serverState" /\ attached /\ isActive /\ ~isSyncing)
                 => serverState' = lastPushed' ]_vars

\* The pending rate-adjustment timers
RateTimers(tms) == { i \in 1..Len(tms) : tms[i].kind = "rate" }

\* C38: a soft correction puts the rate below normal when the player is
\* ahead and above normal when it is behind, and leaves a rate-adjustment
\* timer pending; at most one such timer is ever pending; and when it fires
\* the rate is reset to normal and performSync runs again on the stored
\* remote state, so the rate is normal afterwards unless the drift is found
\* in the soft band again.
C38_SoftCorrection ==
    [][ calls' # calls =>
          /\ (did'.ran /\ status' = "adjusting") =>
                 LET drift == did'.local - EstimatedServerTime(did'.state, did'.clock) IN
                 /\ drift > 0 => playbackRate' < RATE_NORMAL
                 /\ drift < 0 => playbackRate' > RATE_NORMAL
                 /\ RateTimers(timers') # {}
          /\ Cardinality(RateTimers(timers')) <= 1
          /\ did'.trigger = "rate" =>
                 /\ playbackRate # RATE_NORMAL => "rate" \in did'.ops
                 /\ did'.ran /\ did'.state = serverState
                 /\ playbackRate' = RATE_NORMAL \/ status' = "adjusting" ]_vars

\* C38 witness: the rate timer fired, the drift was evaluated again and
\* found the player behind: the rate is above normal and one new timer is
\* pending.
C38_Witness ==
    /\ did.trigger = "rate" /\ did.ran /\ status = "adjusting"
    /\ playbackRate = RATE_SPEEDUP
    /\ Cardinality(RateTimers(timers)) = 1

\* C33: the user presses play or pause while the SyncManager is active and
\* the guard is clear, and the player's new state differs from the remote
\* state last applied (the stored one, nothing waiting to be applied after
\* buffering): the update is sent.
C33_UserChangeReported ==
    [][ ( /\ calls' # calls
          /\ emitted'.origin = "user" /\ emitted'.event \in {"play", "pause"}
          /\ isActive /\ ~isSyncing
          /\ ~serverState.isNull /\ ~isBuffering
          /\ \A i \in 1..Len(timers) : timers[i].kind # "resync"
          /\ emitted'.isPlaying # serverState.isPlaying )
            => emitted'.sent ]_vars

\* What is sent is a state that differs from the last one sent
C33_ChangeFromLastSentReported ==
    [][ ( /\ calls' # calls
          /\ emitted'.origin = "user" /\ emitted'.event \in {"play", "pause"}
          /\ isActive /\ ~isSyncing
          /\ emitted'.isPlaying # lastEmittedState.isPlaying )
            => emitted'.sent ]_vars

====
